---- MODULE Spec2Model ----
(***************************************************************************)
(* Verification model of three parts of the integrations back end:         *)
(*   - Orchestrator (packages/shared/lib/services/sync/                    *)
(*     orchestrator.service.ts): createSyncs / create;                     *)
(*   - ConfigService (packages/shared/lib/services/config.service.ts):     *)
(*     the provider-config registry and its cascading soft delete;         *)
(*   - getIntegrationFlows / hasSimilarFlow / containsSameEndpoint         *)
(*     (packages/webapp/.../Endpoints/Show.tsx): the flow catalog.         *)
(* The specifications share the variables: SpecOrch, Spec (the registry),  *)
(* SpecCascade (the cascading delete over its dependent tables),           *)
(* SpecCatalog, SpecCreds, SpecTeardown, SpecShow, SpecTemplates,          *)
(* SpecToggle and SpecRace.                                                *)
(***************************************************************************)
EXTENDS Integers, Sequences, FiniteSets, TLC

(***************************************************************************)
(* Bounds of the model.                                                    *)
(***************************************************************************)
MaxRequests == 2
MaxConnections == 2
MaxConfigs == 2
MaxConnectionRows == 1
MaxSyncs == 1
MaxInstalled == 2
MaxTemplates == 1
MaxArtifacts == 2
MaxFlows == 3
MaxCalls == 2
MaxClicks == 2

(***************************************************************************)
(* Tables (_nango_configs, _nango_connections, the sync table, schedules)  *)
(* and the state of the operation in progress.                             *)
(***************************************************************************)
VARIABLES
    configs,        \* _nango_configs: sequence of rows, the row id is the index
    syncs,          \* Sync records: set of [id, nango_connection_id, name]
    nextSyncId,     \* id the next Sync record gets
    syncArgs,       \* createSyncs: the submitted list of CreateSyncArgs
    debug,          \* createSyncs: the debug flag
    activityLogId,  \* createSyncs: the activity log id, 0 when undefined
    syncClient,     \* what SyncClient.getInstance() resolves to: "client" or "null"
    orch,           \* createSyncs / create: program counter and locals
    startCmds,      \* start-continuous commands the sync client has accepted
    activityLog,    \* activity log messages written, in order
    attempts,       \* history: request indices handed to create, in order
    results,        \* history: what each create call returned, in order
    failures,       \* history: the external calls that threw
    connections,    \* _nango_connections: sequence of rows, the row id is the index
    schedules,      \* schedule records: the ids of the syncs that have one
    files,          \* sync files: the ids of the configs that have some
    flowConfigs,    \* flow-config rows: the ids of the configs that have some
    isCloud,        \* the deployment flag isCloud of @nangohq/utils
    keyClash,       \* history: two live config rows of one environment shared a key
    del,            \* deleteProviderConfig: program counter, arguments and locals
    request,        \* getIntegrationFlows: what the validation of the request finds
    availablePublicFlows, \* flowService: the bundled templates, one entry per provider
    allFlows,       \* getSyncConfigsAsStandardConfig: the installed actions and syncs
    response,       \* getIntegrationFlows: the response sent, status 0 before it
    tear,           \* Orchestrator.deleteSync / deleteConfig: program counter and argument
    providersYaml,  \* the providers.yaml file the ConfigService is constructed from
    templates,      \* ConfigService.templates
    lastCall,       \* the last call that needs the templates, and how it ended
    data,           \* EndpointsShow: the flows the page was given
    engine,         \* the argument order the engine's sort calls the comparator in
    byGroup,        \* EndpointsShow: the groups shown, Null before the page is drawn
    toggle,         \* ScriptToggle: its props and state, and the handler in progress
    race            \* createEmptyProviderConfig: the calls in progress, by caller

orchVars == <<syncArgs, debug, activityLogId, syncClient, orch, startCmds,
              activityLog, attempts, results, failures>>

catVars == <<request, availablePublicFlows, allFlows, response>>
tearVars == <<tear>>
tplVars == <<providersYaml, templates, lastCall>>
showVars == <<data, engine, byGroup>>
togVars == <<toggle>>
raceVars == <<race>>

\* the tables only the registry writes, and its operation state
regVars == <<connections, schedules, files, flowConfigs, isCloud, keyClash, del>>

(***************************************************************************)
(* Helpers.                                                                *)
(***************************************************************************)
Range(s) == {s[i] : i \in DOMAIN s}

\* the values undefined and null
Undefined == [undef |-> TRUE]
Null == [null |-> TRUE]

\* The rows of a table (a sequence) that satisfy a where-clause, by id.
RowIds(table) == DOMAIN table

(***************************************************************************)
(* ConfigService.getProviderConfig: the first non-deleted row with that    *)
(* unique_key and environment_id, or null (0).                             *)
(***************************************************************************)
\* the rows with that unique_key and environment_id, the deleted ones included
ConfigsWhereKeyWithDeleted(providerConfigKey, environment_id) ==
    {id \in RowIds(configs) :
        /\ configs[id].unique_key = providerConfigKey
        /\ configs[id].environment_id = environment_id}

ConfigsWhereKey(providerConfigKey, environment_id) ==
    {id \in RowIds(configs) :
        /\ configs[id].unique_key = providerConfigKey
        /\ configs[id].environment_id = environment_id
        /\ configs[id].deleted = FALSE}

First(ids) == IF ids = {} THEN 0 ELSE CHOOSE id \in ids : \A other \in ids : id <= other

getProviderConfig(providerConfigKey, environment_id) ==
    First(ConfigsWhereKey(providerConfigKey, environment_id))


\* deleteProviderConfig is not running
DelIdle ==
    [pc |-> "idle", id |-> 0, environmentId |-> 0, providerConfigKey |-> "",
     updated |-> 0, updates |-> 0, ret |-> FALSE,
     \* history: the tables as they were when the call was made
     connections0 |-> <<>>, wasLive |-> FALSE, syncIds0 |-> {},
     hadFiles |-> FALSE, hadFlowConfigs |-> FALSE]

\* the registry's own tables are empty and no deletion runs
RegIdle ==
    /\ connections = <<>>
    /\ schedules = {}
    /\ files = {}
    /\ flowConfigs = {}
    /\ isCloud = TRUE
    /\ keyClash = FALSE
    /\ del = DelIdle

\* no deleteSync or deleteConfig runs
TearIdle == tear = [pc |-> "idle", id |-> 0]

\* the templates were loaded from a providers.yaml with the provider "p"
LoadedYaml == [p |-> [auth_mode |-> "OAUTH2"]]
NoCall == [n |-> 0, op |-> "", provider |-> "", threw |-> "", returned |-> Undefined]
TplIdle ==
    /\ providersYaml = LoadedYaml
    /\ templates = LoadedYaml
    /\ lastCall = NoCall

\* no page is drawn
ShowIdle ==
    /\ data = Undefined
    /\ engine = "ab"
    /\ byGroup = Null

\* no flow is shown with a toggle
NoToggle ==
    [pc |-> "idle", handler |-> "", flow |-> [id |-> 0, type |-> "action", enabled |-> FALSE],
     closure |-> [id |-> 0, type |-> "action", enabled |-> FALSE],
     open |-> FALSE, loading |-> FALSE, requests |-> <<>>, toast |-> "",
     refetched |-> 0, closed |-> FALSE, n |-> 0]

TogIdle == toggle = NoToggle

\* the callers of createEmptyProviderConfig whose calls may overlap
Callers == {"first", "second"}

\* no createEmptyProviderConfig is between its count and its insert
NotCalling == [pc |-> "idle", provider |-> "", environment_id |-> 0, count |-> 0, inserted |-> 0]

RaceIdle == race = [caller \in Callers |-> NotCalling]

\* no request for the flow catalog is made
CatIdle ==
    /\ request = "ok"
    /\ availablePublicFlows = <<>>
    /\ allFlows = [actions |-> <<>>, syncs |-> <<>>]
    /\ response = [status |-> 0, code |-> "", flows |-> <<>>]

(***************************************************************************)
(* Orchestrator (orchestrator.service.ts).                                 *)
(*                                                                         *)
(* One action per awaited call.  The external calls (the config lookup,    *)
(* createSync, startContinuous) either complete or throw.                  *)
(***************************************************************************)
OrchKey == "p"

\* connections of a request: rows of _nango_connections with ids 1..n
ConnectionList(n) == [j \in 1..n |-> [id |-> j]]

\* CreateSyncArgs (lines 11-17); the r-th request deploys the flow named r
CreateSyncArgs(r, n) ==
    [connections |-> ConnectionList(n),
     providerConfigKey |-> OrchKey,
     environmentId |-> 1,
     sync |-> [models |-> <<"Model">>],
     syncName |-> r]

\* every list of at most MaxRequests requests of at most MaxConnections connections
SyncArgsLists ==
    UNION {{[r \in 1..len |-> CreateSyncArgs(r, ns[r])] :
                ns \in [1..len -> 0..MaxConnections]} : len \in 0..MaxRequests}

OrchIdle ==
    [pc |-> "idle", i |-> 0, c |-> 0, success |-> TRUE, syncConfig |-> 0,
     createdSync |-> 0, result |-> TRUE, ret |-> TRUE]

\* createActivityLogMessage: appends the message to the activity log
createActivityLogMessage(log, level, kind, syncName, count) ==
    Append(log, [level |-> level, activity_log_id |-> activityLogId, kind |-> kind,
                 syncName |-> syncName, connections |-> count])

\* lines 31-38 and 51-58: the debug messages are written only under debug
\* and with an activity log id
DebugLog(log, kind, syncName, count) ==
    IF debug /\ activityLogId # 0
    THEN createActivityLogMessage(log, "debug", kind, syncName, count)
    ELSE log

\* createSync(connection.id, syncName): inserts one Sync record
createSync(nango_connection_id, syncName) ==
    [id |-> nextSyncId, nango_connection_id |-> nango_connection_id, name |-> syncName]

CurrentArgs == syncArgs[orch.i]

\* lines 79-81: if (!result) success = false
Aggregate(success, result) == IF ~result THEN FALSE ELSE success

\* line 76: the loop runs while requests remain, whatever success is
LoopContinuesShortCircuit(i, len, success) == i <= len /\ success
LoopContinues(i, len, success) == i <= len

\* line 75: createSyncs is called: success = true, first iteration
createSyncs_call ==
    /\ orch.pc = "idle"
    /\ orch' = [orch EXCEPT !.pc = "createSyncs_for", !.i = 1, !.success = TRUE]
    /\ UNCHANGED <<configs, syncs, nextSyncId, syncArgs, debug, activityLogId, syncClient,
                   startCmds, activityLog, attempts, results, failures>>
    /\ UNCHANGED <<regVars, catVars, tearVars, tplVars, showVars, togVars, raceVars>>

\* lines 76-78: the next request is handed to create
createSyncs_for ==
    /\ orch.pc = "createSyncs_for"
    /\ LoopContinues(orch.i, Len(syncArgs), orch.success)
    /\ orch' = [orch EXCEPT !.pc = "create_getProviderConfig"]
    /\ attempts' = Append(attempts, orch.i)
    /\ UNCHANGED <<configs, syncs, nextSyncId, syncArgs, debug, activityLogId, syncClient,
                   startCmds, activityLog, results, failures>>
    /\ UNCHANGED <<regVars, catVars, tearVars, tplVars, showVars, togVars, raceVars>>

\* lines 30-38: the provider config is looked up (null when absent) and the
\* debug message written
create_getProviderConfig ==
    /\ orch.pc = "create_getProviderConfig"
    /\ orch' = [orch EXCEPT !.pc = "create_for", !.c = 1,
                            !.syncConfig = getProviderConfig(CurrentArgs.providerConfigKey,
                                                             CurrentArgs.environmentId)]
    /\ activityLog' = DebugLog(activityLog, "beginning", CurrentArgs.syncName,
                               Len(CurrentArgs.connections))
    /\ UNCHANGED <<configs, syncs, nextSyncId, syncArgs, debug, activityLogId, syncClient,
                   startCmds, attempts, results, failures>>
    /\ UNCHANGED <<regVars, catVars, tearVars, tplVars, showVars, togVars, raceVars>>

\* line 30: the lookup throws
create_getProviderConfig_throws ==
    /\ orch.pc = "create_getProviderConfig"
    /\ orch' = [orch EXCEPT !.pc = "create_catch"]
    /\ failures' = Append(failures, [request |-> orch.i, connection |-> 0,
                                     call |-> "getProviderConfig"])
    /\ UNCHANGED <<configs, syncs, nextSyncId, syncArgs, debug, activityLogId, syncClient,
                   startCmds, activityLog, attempts, results>>
    /\ UNCHANGED <<regVars, catVars, tearVars, tplVars, showVars, togVars, raceVars>>

\* line 40: the Sync record of the next connection is persisted
create_createSync ==
    /\ orch.pc = "create_for"
    /\ orch.c <= Len(CurrentArgs.connections)
    /\ LET createdSync == createSync(CurrentArgs.connections[orch.c].id, CurrentArgs.syncName)
       IN  /\ syncs' = syncs \cup {createdSync}
           /\ nextSyncId' = nextSyncId + 1
           /\ orch' = [orch EXCEPT !.pc = "create_startContinuous",
                                   !.createdSync = createdSync.id]
    /\ UNCHANGED <<configs, syncArgs, debug, activityLogId, syncClient,
                   startCmds, activityLog, attempts, results, failures>>
    /\ UNCHANGED <<regVars, catVars, tearVars, tplVars, showVars, togVars, raceVars>>

\* line 40: createSync throws
create_createSync_throws ==
    /\ orch.pc = "create_for"
    /\ orch.c <= Len(CurrentArgs.connections)
    /\ orch' = [orch EXCEPT !.pc = "create_catch"]
    /\ failures' = Append(failures, [request |-> orch.i, connection |-> orch.c,
                                     call |-> "createSync"])
    /\ UNCHANGED <<configs, syncs, nextSyncId, syncArgs, debug, activityLogId, syncClient,
                   startCmds, activityLog, attempts, results>>
    /\ UNCHANGED <<regVars, catVars, tearVars, tplVars, showVars, togVars, raceVars>>

\* lines 41-49: syncClient?.startContinuous(...): with a client the command
\* is issued; with a null client the optional call is skipped
create_startContinuous ==
    /\ orch.pc = "create_startContinuous"
    /\ startCmds' =
          IF syncClient = "null" THEN startCmds
          ELSE Append(startCmds,
                      [connection |-> CurrentArgs.connections[orch.c],
                       sync |-> orch.createdSync,
                       syncConfig |-> orch.syncConfig,
                       syncName |-> CurrentArgs.syncName,
                       syncData |-> [models |-> CurrentArgs.sync.models,
                                     returns |-> CurrentArgs.sync.models],
                       debug |-> debug])
    /\ orch' = [orch EXCEPT !.pc = "create_for", !.c = orch.c + 1]
    /\ UNCHANGED <<configs, syncs, nextSyncId, syncArgs, debug, activityLogId, syncClient,
                   activityLog, attempts, results, failures>>
    /\ UNCHANGED <<regVars, catVars, tearVars, tplVars, showVars, togVars, raceVars>>

\* line 41: SyncClient.getInstance() throws
create_getInstance_throws ==
    /\ orch.pc = "create_startContinuous"
    /\ orch' = [orch EXCEPT !.pc = "create_catch"]
    /\ failures' = Append(failures, [request |-> orch.i, connection |-> orch.c,
                                     call |-> "getInstance"])
    /\ UNCHANGED <<configs, syncs, nextSyncId, syncArgs, debug, activityLogId, syncClient,
                   startCmds, activityLog, attempts, results>>
    /\ UNCHANGED <<regVars, catVars, tearVars, tplVars, showVars, togVars, raceVars>>

\* line 42: startContinuous throws
create_startContinuous_throws ==
    /\ orch.pc = "create_startContinuous"
    /\ syncClient # "null"
    /\ orch' = [orch EXCEPT !.pc = "create_catch"]
    /\ failures' = Append(failures, [request |-> orch.i, connection |-> orch.c,
                                     call |-> "startContinuous"])
    /\ UNCHANGED <<configs, syncs, nextSyncId, syncArgs, debug, activityLogId, syncClient,
                   startCmds, activityLog, attempts, results>>
    /\ UNCHANGED <<regVars, catVars, tearVars, tplVars, showVars, togVars, raceVars>>

\* lines 51-60: every connection was handled: debug message, return true
create_return ==
    /\ orch.pc = "create_for"
    /\ orch.c > Len(CurrentArgs.connections)
    /\ activityLog' = DebugLog(activityLog, "finished", CurrentArgs.syncName,
                               Len(CurrentArgs.connections))
    /\ orch' = [orch EXCEPT !.pc = "createSyncs_result", !.result = TRUE]
    /\ UNCHANGED <<configs, syncs, nextSyncId, syncArgs, debug, activityLogId, syncClient,
                   startCmds, attempts, results, failures>>
    /\ UNCHANGED <<regVars, catVars, tearVars, tplVars, showVars, togVars, raceVars>>

\* the error message written as the debug messages are, only under debug
\* and with an activity log id
ErrorLogUnderDebug(log, syncName, count) == DebugLog(log, "error", syncName, count)

\* lines 62-68: the error message is written, whatever debug and
\* activityLogId are
ErrorLog(log, syncName, count) ==
    createActivityLogMessage(log, "error", "error", syncName, count)

\* lines 61-71: the catch block: one error message, return false
create_catch ==
    /\ orch.pc = "create_catch"
    /\ activityLog' = ErrorLog(activityLog, CurrentArgs.syncName,
                               Len(CurrentArgs.connections))
    /\ orch' = [orch EXCEPT !.pc = "createSyncs_result", !.result = FALSE]
    /\ UNCHANGED <<configs, syncs, nextSyncId, syncArgs, debug, activityLogId, syncClient,
                   startCmds, attempts, results, failures>>
    /\ UNCHANGED <<regVars, catVars, tearVars, tplVars, showVars, togVars, raceVars>>

\* lines 78-82: the result of create is folded into success
createSyncs_result ==
    /\ orch.pc = "createSyncs_result"
    /\ orch' = [orch EXCEPT !.pc = "createSyncs_for", !.i = orch.i + 1,
                            !.success = Aggregate(orch.success, orch.result)]
    /\ results' = Append(results, orch.result)
    /\ UNCHANGED <<configs, syncs, nextSyncId, syncArgs, debug, activityLogId, syncClient,
                   startCmds, activityLog, attempts, failures>>
    /\ UNCHANGED <<regVars, catVars, tearVars, tplVars, showVars, togVars, raceVars>>

\* line 84: return success
createSyncs_return ==
    /\ orch.pc = "createSyncs_for"
    /\ ~LoopContinues(orch.i, Len(syncArgs), orch.success)
    /\ orch' = [orch EXCEPT !.pc = "done", !.ret = orch.success]
    /\ UNCHANGED <<configs, syncs, nextSyncId, syncArgs, debug, activityLogId, syncClient,
                   startCmds, activityLog, attempts, results, failures>>
    /\ UNCHANGED <<regVars, catVars, tearVars, tplVars, showVars, togVars, raceVars>>

\* a live row of _nango_configs for environment 1 and OrchKey
OrchConfigRow ==
    [environment_id |-> 1, unique_key |-> OrchKey, provider |-> "p", deleted |-> FALSE]

InitOrch ==
    /\ configs \in {<<>>, <<OrchConfigRow>>}
    /\ syncs = {}
    /\ nextSyncId = 1
    /\ syncArgs \in SyncArgsLists
    /\ debug \in BOOLEAN
    /\ activityLogId \in {0, 7}
    /\ syncClient \in {"client", "null"}
    /\ orch = OrchIdle
    /\ startCmds = <<>>
    /\ activityLog = <<>>
    /\ attempts = <<>>
    /\ results = <<>>
    /\ failures = <<>>
    /\ RegIdle
    /\ CatIdle
    /\ TearIdle
    /\ TplIdle
    /\ ShowIdle
    /\ TogIdle
    /\ RaceIdle

NextOrch ==
    \/ createSyncs_call
    \/ createSyncs_for
    \/ create_getProviderConfig
    \/ create_getProviderConfig_throws
    \/ create_createSync
    \/ create_createSync_throws
    \/ create_startContinuous
    \/ create_getInstance_throws
    \/ create_startContinuous_throws
    \/ create_return
    \/ create_catch
    \/ createSyncs_result
    \/ createSyncs_return

vars == <<configs, syncs, nextSyncId, syncArgs, debug, activityLogId, syncClient, orch,
          startCmds, activityLog, attempts, results, failures,
          connections, schedules, files, flowConfigs, isCloud, keyClash, del,
          request, availablePublicFlows, allFlows, response,
          tear, providersYaml, templates, lastCall, data, engine, byGroup,
          toggle, race>>

SpecOrch == InitOrch /\ [][NextOrch]_vars


(***************************************************************************)
(* ConfigService (config.service.ts): the provider-config registry.        *)
(*                                                                         *)
(* Registry operations run one at a time.  deleteProviderConfig is a       *)
(* sequence of awaited statements with no transaction around them: it is   *)
(* one action per statement and may be interrupted between any two.        *)
(***************************************************************************)
Environments == {1, 2}
Providers == {"p"}

\* nanoid(4).toLocaleLowerCase(): a random short id, drawn from a small pool
Nanoids == {"x7k2"}

\* line 169: `${provider}-${nanoid}`
SuffixedKey(provider, nanoid) == provider \o "-" \o nanoid

UniqueKeys == Providers \cup {SuffixedKey(provider, n) : provider \in Providers, n \in Nanoids}

\* a ProviderConfig given to createProviderConfig
ProviderConfigs ==
    [environment_id : Environments, unique_key : UniqueKeys, provider : Providers,
     deleted : {FALSE}]

(***************************************************************************)
(* The credential of a ProviderConfig and the encryption service.          *)
(*                                                                         *)
(* oauth_client_secret is [text, sealed]: the secret as the caller wrote   *)
(* it and the seals put on it, one nonce per encryption, outermost last.   *)
(* A plaintext has no seal.  The encryption service is opaque: encrypting  *)
(* seals what it is given with a nonce of the service's choosing, and      *)
(* decrypting takes the outermost seal off (a value with no seal is        *)
(* returned as it is).                                                     *)
(***************************************************************************)
Nonces == {"n1", "n2"}
SecretTexts == {"", "s"}

Plaintext(text) == [text |-> text, sealed |-> <<>>]

\* config.oauth_client_secret is truthy: a field that is there and is not ''
HasSecret(config) ==
    /\ "oauth_client_secret" \in DOMAIN config
    /\ config.oauth_client_secret # Plaintext("")

\* encryptionManager.encryptProviderConfig
encryptProviderConfig(config, nonce) ==
    IF "oauth_client_secret" \in DOMAIN config
    THEN [config EXCEPT !.oauth_client_secret.sealed = Append(@, nonce)]
    ELSE config

\* encryptionManager.decryptProviderConfig
decryptProviderConfig(config) ==
    IF "oauth_client_secret" \in DOMAIN config /\ config.oauth_client_secret.sealed # <<>>
    THEN [config EXCEPT !.oauth_client_secret.sealed = SubSeq(@, 1, Len(@) - 1)]
    ELSE config

\* line 155: the config is encrypted when it has a secret
ConfigToInsert(config, nonce) ==
    IF HasSecret(config) THEN encryptProviderConfig(config, nonce) ELSE config

\* line 156: insert(configToInsert).returning('*')
InsertConfig(table, config) == Append(table, config)

\* the count without the deleted: false of line 164
CountByProviderWithDeleted(provider, environment_id) ==
    Cardinality({id \in RowIds(configs) :
                    /\ configs[id].provider = provider
                    /\ configs[id].environment_id = environment_id})

\* lines 161-165: count(*) where {provider, environment_id, deleted: false}
CountByProvider(provider, environment_id) ==
    Cardinality({id \in RowIds(configs) :
                    /\ configs[id].provider = provider
                    /\ configs[id].environment_id = environment_id
                    /\ configs[id].deleted = FALSE})

\* line 169: the bare provider name when the count is '0', else a suffixed key
EmptyConfigKey(provider, count, nanoid) ==
    IF count = 0 THEN provider ELSE SuffixedKey(provider, nanoid)

\* lines 219-222: update {unique_key: newUniqueKey} where {unique_key,
\* environment_id, deleted: false}
RenameConfigs(table, providerConfigKey, newUniqueKey, environment_id) ==
    [id \in DOMAIN table |->
        IF /\ table[id].unique_key = providerConfigKey
           /\ table[id].environment_id = environment_id
           /\ table[id].deleted = FALSE
        THEN [table[id] EXCEPT !.unique_key = newUniqueKey]
        ELSE table[id]]

\* line 199: the rows where {id, deleted: false}
ConfigsWhereId(id) ==
    {row \in RowIds(configs) : row = id /\ configs[row].deleted = FALSE}

\* line 199: update({deleted: true, deleted_at}) of those rows
SoftDeleteConfig(table, id) ==
    [row \in DOMAIN table |->
        IF row = id /\ table[row].deleted = FALSE
        THEN [table[row] EXCEPT !.deleted = TRUE]
        ELSE table[row]]

\* line 200: if (updated <= 0) return false
NoRowUpdatedStrict(updated) == updated < 0
NoRowUpdated(updated) == updated <= 0

\* lines 204-207: update({deleted: true, deleted_at}) where
\* {provider_config_key, environment_id, deleted: false}
SoftDeleteConnectionsAnyEnvironment(table, providerConfigKey, environmentId) ==
    [row \in DOMAIN table |->
        IF table[row].provider_config_key = providerConfigKey
        THEN [table[row] EXCEPT !.deleted = TRUE]
        ELSE table[row]]
SoftDeleteConnections(table, providerConfigKey, environmentId) ==
    [row \in DOMAIN table |->
        IF /\ table[row].provider_config_key = providerConfigKey
           /\ table[row].environment_id = environmentId
           /\ table[row].deleted = FALSE
        THEN [table[row] EXCEPT !.deleted = TRUE]
        ELSE table[row]]

\* the connection rows under a configuration, by key
ConnectionsUnder(environmentId, providerConfigKey) ==
    {c \in RowIds(connections) :
        /\ connections[c].environment_id = environmentId
        /\ connections[c].provider_config_key = providerConfigKey}

LiveConnectionsUnder(environmentId, providerConfigKey) ==
    {c \in ConnectionsUnder(environmentId, providerConfigKey) :
        connections[c].deleted = FALSE}

\* syncManager.deleteSyncsByProviderConfig: the syncs of every connection
\* under the configuration, each removed with its schedule
SyncsByProviderConfig(environmentId, providerConfigKey) ==
    {s \in syncs :
        s.nango_connection_id \in LiveConnectionsUnder(environmentId, providerConfigKey)}

\* the syncs of every connection row under a configuration, deleted or not
SyncsOf(environmentId, providerConfigKey) ==
    {s \in syncs :
        s.nango_connection_id \in ConnectionsUnder(environmentId, providerConfigKey)}

\* lines 191-208: the statements of deleteProviderConfig, in order
StepAfterConnectionsFirst(pc) ==
    CASE pc = "call" -> "deleteSyncsByProviderConfig"
      [] pc = "deleteSyncsByProviderConfig" -> "deleteSyncFilesForConfig"
      [] pc = "deleteSyncFilesForConfig" -> "deleteSyncConfigByConfigId"
      [] pc = "deleteSyncConfigByConfigId" -> "updateConnections"
      [] pc = "updateConnections" -> "updateConfig"
      [] pc = "updateConfig" -> "done"
StepAfter(pc) ==
    CASE pc = "call" -> "deleteSyncsByProviderConfig"
      [] pc = "deleteSyncsByProviderConfig" -> "deleteSyncFilesForConfig"
      [] pc = "deleteSyncFilesForConfig" -> "deleteSyncConfigByConfigId"
      [] pc = "deleteSyncConfigByConfigId" -> "updateConfig"
      [] pc = "updateConfig" -> "updateConnections"
      [] pc = "updateConnections" -> "done"

\* two non-deleted rows of one environment have the same unique_key
KeyClash(table) ==
    \E a, b \in DOMAIN table :
        /\ a # b
        /\ table[a].deleted = FALSE
        /\ table[b].deleted = FALSE
        /\ table[a].environment_id = table[b].environment_id
        /\ table[a].unique_key = table[b].unique_key

RegistryIdle == del.pc = "idle"

\* lines 154-158
createProviderConfig(config) ==
    /\ RegistryIdle
    /\ Len(configs) < MaxConfigs
    /\ \E nonce \in Nonces : configs' = InsertConfig(configs, ConfigToInsert(config, nonce))
    /\ keyClash' = (keyClash \/ KeyClash(configs'))
    /\ UNCHANGED <<syncs, nextSyncId, connections, schedules, files, flowConfigs, isCloud,
                   del, orchVars, catVars, tearVars, tplVars, showVars, togVars, raceVars>>

\* lines 160-178
createEmptyProviderConfig(provider, environment_id, nanoid) ==
    /\ RegistryIdle
    /\ Len(configs) < MaxConfigs
    /\ LET count == CountByProvider(provider, environment_id)
       IN  configs' = InsertConfig(configs,
                [environment_id |-> environment_id,
                 unique_key |-> EmptyConfigKey(provider, count, nanoid),
                 provider |-> provider,
                 deleted |-> FALSE])
    /\ keyClash' = (keyClash \/ KeyClash(configs'))
    /\ UNCHANGED <<syncs, nextSyncId, connections, schedules, files, flowConfigs, isCloud,
                   del, orchVars, catVars, tearVars, tplVars, showVars, togVars, raceVars>>

\* lines 218-223
editProviderConfigName(providerConfigKey, newUniqueKey, environment_id) ==
    /\ RegistryIdle
    /\ configs' = RenameConfigs(configs, providerConfigKey, newUniqueKey, environment_id)
    /\ keyClash' = (keyClash \/ KeyClash(configs'))
    /\ UNCHANGED <<syncs, nextSyncId, connections, schedules, files, flowConfigs, isCloud,
                   del, orchVars, catVars, tearVars, tplVars, showVars, togVars, raceVars>>

\* lines 211-216: update(encryptProviderConfig(config)) where {id,
\* environment_id, deleted: false}; the columns of config are written
EditConfig(table, config, nonce) ==
    LET encrypted == encryptProviderConfig(config, nonce)
    IN  [row \in DOMAIN table |->
            IF /\ row = config.id
               /\ table[row].environment_id = config.environment_id
               /\ table[row].deleted = FALSE
            THEN [column \in DOMAIN table[row] \cup (DOMAIN encrypted \ {"id"}) |->
                     IF column \in DOMAIN encrypted THEN encrypted[column]
                     ELSE table[row][column]]
            ELSE table[row]]

\* lines 211-216
editProviderConfig(config) ==
    /\ RegistryIdle
    /\ \E nonce \in Nonces : configs' = EditConfig(configs, config, nonce)
    /\ keyClash' = (keyClash \/ KeyClash(configs'))
    /\ UNCHANGED <<syncs, nextSyncId, connections, schedules, files, flowConfigs, isCloud,
                   del, orchVars, catVars, tearVars, tplVars, showVars, togVars, raceVars>>

\* lines 280-303: null when the source is absent, else the source row, as
\* getProviderConfig returns it (decrypted), is handed to
\* createProviderConfig under the target environment and the same unique_key
copyProviderConfigCreds(fromEnvironmentId, toEnvironmentId, providerConfigKey) ==
    /\ RegistryIdle
    /\ LET found == getProviderConfig(providerConfigKey, fromEnvironmentId)
       IN  IF found = 0
           THEN UNCHANGED configs
           ELSE LET fromConfig == decryptProviderConfig(configs[found])
                IN  /\ Len(configs) < MaxConfigs
                    /\ \E nonce \in Nonces :
                           configs' = InsertConfig(configs,
                               ConfigToInsert([fromConfig EXCEPT
                                                  !.environment_id = toEnvironmentId,
                                                  !.unique_key = fromConfig.unique_key],
                                              nonce))
    /\ keyClash' = (keyClash \/ KeyClash(configs'))
    /\ UNCHANGED <<syncs, nextSyncId, connections, schedules, files, flowConfigs, isCloud,
                   del, orchVars, catVars, tearVars, tplVars, showVars, togVars, raceVars>>

\* A connection is created under a live configuration (not an operation of
\* these files: the row shape is the one lines 204-207 update).
createConnection(environment_id, provider_config_key) ==
    /\ RegistryIdle
    /\ Len(connections) < MaxConnectionRows
    /\ getProviderConfig(provider_config_key, environment_id) # 0
    /\ connections' = Append(connections,
           [environment_id |-> environment_id,
            provider_config_key |-> provider_config_key,
            deleted |-> FALSE])
    /\ UNCHANGED <<configs, syncs, nextSyncId, schedules, files, flowConfigs, isCloud, keyClash,
                   del, orchVars, catVars, tearVars, tplVars, showVars, togVars, raceVars>>

\* First deploy of a flow for a live configuration: the flow-config row and
\* its files are stored and a sync with its schedule starts for every
\* connection under the configuration.
NewSyncs(conns) ==
    LET ordered == CHOOSE f \in [1..Cardinality(conns) -> conns] :
                       \A a, b \in 1..Cardinality(conns) : a < b => f[a] < f[b]
    IN  {[id |-> nextSyncId + j - 1, nango_connection_id |-> ordered[j], name |-> 1] :
            j \in 1..Cardinality(conns)}

deployFlow(id) ==
    /\ RegistryIdle
    /\ id \in RowIds(configs)
    /\ configs[id].deleted = FALSE
    /\ id \notin flowConfigs
    /\ LET conns == LiveConnectionsUnder(configs[id].environment_id, configs[id].unique_key)
           created == NewSyncs(conns)
       IN  /\ nextSyncId + Cardinality(conns) - 1 <= MaxSyncs
           /\ syncs' = syncs \cup created
           /\ schedules' = schedules \cup {s.id : s \in created}
           /\ nextSyncId' = nextSyncId + Cardinality(conns)
    /\ flowConfigs' = flowConfigs \cup {id}
    /\ files' = files \cup {id}
    /\ UNCHANGED <<configs, connections, isCloud, keyClash, del, orchVars, catVars, tearVars, tplVars, showVars, togVars, raceVars>>

\* lines 180-190: the call.  The caller passes the id of a row together
\* with that row's environment and unique_key; an id of no row comes with
\* any environment and key.
deleteProviderConfig_call(id, environmentId, providerConfigKey) ==
    /\ RegistryIdle
    /\ id \in RowIds(configs) =>
          /\ configs[id].environment_id = environmentId
          /\ configs[id].unique_key = providerConfigKey
    /\ del' = [pc |-> StepAfter("call"),
               id |-> id,
               environmentId |-> environmentId,
               providerConfigKey |-> providerConfigKey,
               updated |-> 0, updates |-> 0, ret |-> FALSE,
               connections0 |-> connections,
               wasLive |-> ConfigsWhereId(id) # {},
               syncIds0 |-> {s.id : s \in SyncsOf(environmentId, providerConfigKey)},
               hadFiles |-> id \in files,
               hadFlowConfigs |-> id \in flowConfigs]
    /\ UNCHANGED <<configs, syncs, nextSyncId, connections, schedules, files, flowConfigs,
                   isCloud, keyClash, orchVars, catVars, tearVars, tplVars, showVars, togVars, raceVars>>

\* line 191: every sync under the configuration goes, with its schedule
deleteProviderConfig_deleteSyncs ==
    /\ del.pc = "deleteSyncsByProviderConfig"
    /\ LET gone == SyncsByProviderConfig(del.environmentId, del.providerConfigKey)
       IN  /\ schedules' = schedules \ {s.id : s \in gone}
           /\ syncs' = syncs \ gone
    /\ del' = [del EXCEPT !.pc = StepAfter(del.pc)]
    /\ UNCHANGED <<configs, nextSyncId, connections, files, flowConfigs, isCloud, keyClash,
                   orchVars, catVars, tearVars, tplVars, showVars, togVars, raceVars>>

\* lines 193-195: if (isCloud) deleteSyncFilesForConfig(id, environmentId)
deleteProviderConfig_deleteSyncFiles ==
    /\ del.pc = "deleteSyncFilesForConfig"
    /\ files' = IF isCloud THEN files \ {del.id} ELSE files
    /\ del' = [del EXCEPT !.pc = StepAfter(del.pc)]
    /\ UNCHANGED <<configs, syncs, nextSyncId, connections, schedules, flowConfigs, isCloud,
                   keyClash, orchVars, catVars, tearVars, tplVars, showVars, togVars, raceVars>>

\* line 197: deleteSyncConfigByConfigId(id)
deleteProviderConfig_deleteSyncConfig ==
    /\ del.pc = "deleteSyncConfigByConfigId"
    /\ flowConfigs' = flowConfigs \ {del.id}
    /\ del' = [del EXCEPT !.pc = StepAfter(del.pc)]
    /\ UNCHANGED <<configs, syncs, nextSyncId, connections, schedules, files, isCloud,
                   keyClash, orchVars, catVars, tearVars, tplVars, showVars, togVars, raceVars>>

\* lines 199-202: the soft delete of the config row; false on no row
deleteProviderConfig_updateConfig ==
    /\ del.pc = "updateConfig"
    /\ LET updated == Cardinality(ConfigsWhereId(del.id))
       IN  /\ configs' = SoftDeleteConfig(configs, del.id)
           /\ del' = [del EXCEPT
                         !.updated = updated,
                         !.updates = del.updates + 1,
                         !.ret = IF NoRowUpdated(updated) THEN FALSE
                                 ELSE StepAfter(del.pc) = "done",
                         !.pc = IF NoRowUpdated(updated) THEN "done" ELSE StepAfter(del.pc)]
    /\ keyClash' = (keyClash \/ KeyClash(configs'))
    /\ UNCHANGED <<syncs, nextSyncId, connections, schedules, files, flowConfigs, isCloud,
                   orchVars, catVars, tearVars, tplVars, showVars, togVars, raceVars>>

\* lines 204-208: the soft delete of the connections; return true
deleteProviderConfig_updateConnections ==
    /\ del.pc = "updateConnections"
    /\ connections' = SoftDeleteConnections(connections, del.providerConfigKey,
                                            del.environmentId)
    /\ del' = [del EXCEPT !.ret = (StepAfter(del.pc) = "done"),
                          !.pc = StepAfter(del.pc)]
    /\ UNCHANGED <<configs, syncs, nextSyncId, schedules, files, flowConfigs, isCloud,
                   keyClash, orchVars, catVars, tearVars, tplVars, showVars, togVars, raceVars>>

\* the request is cancelled, or the process stops, between two statements
deleteProviderConfig_interrupted ==
    /\ del.pc \notin {"idle", "done"}
    /\ del' = DelIdle
    /\ UNCHANGED <<configs, syncs, nextSyncId, connections, schedules, files, flowConfigs,
                   isCloud, keyClash, orchVars, catVars, tearVars, tplVars, showVars, togVars, raceVars>>

\* the call has returned: the next operation may start
deleteProviderConfig_end ==
    /\ del.pc = "done"
    /\ del' = DelIdle
    /\ UNCHANGED <<configs, syncs, nextSyncId, connections, schedules, files, flowConfigs,
                   isCloud, keyClash, orchVars, catVars, tearVars, tplVars, showVars, togVars, raceVars>>

OrchUnused ==
    /\ syncArgs = <<>>
    /\ debug = FALSE
    /\ activityLogId = 0
    /\ syncClient = "client"
    /\ orch = OrchIdle
    /\ startCmds = <<>>
    /\ activityLog = <<>>
    /\ attempts = <<>>
    /\ results = <<>>
    /\ failures = <<>>

Init ==
    /\ configs = <<>>
    /\ syncs = {}
    /\ nextSyncId = 1
    /\ connections = <<>>
    /\ schedules = {}
    /\ files = {}
    /\ flowConfigs = {}
    /\ isCloud \in BOOLEAN
    /\ keyClash = FALSE
    /\ del = DelIdle
    /\ OrchUnused
    /\ CatIdle
    /\ TearIdle
    /\ TplIdle
    /\ ShowIdle
    /\ TogIdle
    /\ RaceIdle

Next ==
    \/ \E config \in ProviderConfigs : createProviderConfig(config)
    \/ \E provider \in Providers, environment_id \in Environments, nanoid \in Nanoids :
          createEmptyProviderConfig(provider, environment_id, nanoid)
    \/ \E providerConfigKey \in UniqueKeys, newUniqueKey \in UniqueKeys,
          environment_id \in Environments :
          editProviderConfigName(providerConfigKey, newUniqueKey, environment_id)
    \/ \E fromEnvironmentId \in Environments, toEnvironmentId \in Environments,
          providerConfigKey \in UniqueKeys :
          copyProviderConfigCreds(fromEnvironmentId, toEnvironmentId, providerConfigKey)
    \/ \E environment_id \in Environments, provider_config_key \in UniqueKeys :
          createConnection(environment_id, provider_config_key)
    \/ \E id \in 1..MaxConfigs, environmentId \in Environments,
          providerConfigKey \in UniqueKeys :
          deleteProviderConfig_call(id, environmentId, providerConfigKey)
    \/ deleteProviderConfig_deleteSyncs
    \/ deleteProviderConfig_deleteSyncFiles
    \/ deleteProviderConfig_deleteSyncConfig
    \/ deleteProviderConfig_updateConfig
    \/ deleteProviderConfig_updateConnections
    \/ deleteProviderConfig_interrupted
    \/ deleteProviderConfig_end

Spec == Init /\ [][Next]_vars

(***************************************************************************)
(* The reads of the registry, and the registry over configurations that    *)
(* carry a client secret: created, edited and copied between environments. *)
(***************************************************************************)
\* lines 73-81
getById(id) ==
    IF ConfigsWhereId(id) = {} THEN Null
    ELSE decryptProviderConfig(configs[First(ConfigsWhereId(id))])

\* lines 123-135, with the decryption of line 134
getProviderConfigDecrypted(providerConfigKey, environment_id) ==
    IF getProviderConfig(providerConfigKey, environment_id) = 0 THEN Null
    ELSE decryptProviderConfig(configs[getProviderConfig(providerConfigKey, environment_id)])

\* lines 137-141
listProviderConfigs(environment_id) ==
    {decryptProviderConfig(configs[id]) :
        id \in {row \in RowIds(configs) : /\ configs[row].environment_id = environment_id
                                          /\ configs[row].deleted = FALSE}}

\* the configs a caller creates, and the configs a caller edits: the secret
\* is given in plaintext, or is ''
SecretConfigs ==
    [environment_id : Environments, unique_key : UniqueKeys, provider : Providers,
     deleted : {FALSE}, oauth_client_secret : {Plaintext(text) : text \in SecretTexts}]

EditedConfigs ==
    [id : 1..MaxConfigs, environment_id : Environments, unique_key : UniqueKeys,
     provider : Providers, oauth_client_secret : {Plaintext(text) : text \in SecretTexts}]

NextCreds ==
    \/ \E config \in SecretConfigs : createProviderConfig(config)
    \/ \E config \in EditedConfigs : editProviderConfig(config)
    \/ \E fromEnvironmentId \in Environments, toEnvironmentId \in Environments,
          providerConfigKey \in UniqueKeys :
          copyProviderConfigCreds(fromEnvironmentId, toEnvironmentId, providerConfigKey)

SpecCreds == Init /\ [][NextCreds]_vars

(***************************************************************************)
(* The templates of the registry (config.service.ts:20-71, 225-250): read  *)
(* from providers.yaml when the registry is constructed, and asked for by  *)
(* getTemplate, getTemplates and checkProviderTemplateExists.              *)
(*                                                                         *)
(* providersYaml is what the file system holds: no file, a file that is    *)
(* not YAML, an empty document (yaml.load gives undefined), or a document, *)
(* which is the record of its entries.                                     *)
(***************************************************************************)
Missing == [missing |-> TRUE]
Unparseable == [unparseable |-> TRUE]
EmptyDocument == Undefined

\* what a call gives: the code of the error it throws, or what it returns
Threw(code) == [threw |-> code, returned |-> Undefined]
Returned(value) == [threw |-> "", returned |-> value]

\* line 43: yaml.load(fs.readFileSync(templatesPath()).toString())
LoadYaml(file) ==
    IF file = Missing THEN Threw("providers_yaml_not_found")
    ELSE IF file = Unparseable THEN Threw("YAMLException")
    ELSE Returned(file)

\* { ...aliasData, ...templateOverrides }
Spread(aliasData, overrides) ==
    IF aliasData = Undefined THEN overrides
    ELSE [k \in DOMAIN aliasData \cup DOMAIN overrides |->
             IF k \in DOMAIN overrides THEN overrides[k] ELSE aliasData[k]]

\* lines 49-65, for the keys still to visit.  No alias of an alias is
\* drawn, so the order of the visit does not show.
RECURSIVE ResolveAliases(_, _)
ResolveAliases(fileEntries, keys) ==
    IF keys = {} THEN fileEntries
    ELSE LET key == CHOOSE k \in keys : TRUE
             entry == fileEntries[key]
             overrides == [k \in DOMAIN entry \ {"alias"} |-> entry[k]]
             aliasData == IF entry.alias \in DOMAIN fileEntries
                          THEN fileEntries[entry.alias] ELSE Undefined
         IN  IF "alias" \in DOMAIN entry
             THEN ResolveAliases([fileEntries EXCEPT ![key] = Spread(aliasData, overrides)],
                                 keys \ {key})
             ELSE ResolveAliases(fileEntries, keys \ {key})

\* lines 42-67: the body of the try
TryLoad(file) ==
    LET loaded == LoadYaml(file)
    IN  IF loaded.threw # "" THEN loaded
        ELSE IF loaded.returned = Undefined \/ loaded.returned = Null
            THEN Threw("provider_template_loading_failed")
        ELSE Returned(ResolveAliases(loaded.returned, DOMAIN loaded.returned))

\* lines 24-71: whatever the try throws is caught, and null returned
getTemplatesFromFile(file) ==
    LET loaded == TryLoad(file)
    IN  IF loaded.threw # "" THEN Null ELSE loaded.returned

\* lines 225-230
checkProviderTemplateExists(provider) ==
    IF templates = Null THEN Threw("provider_template_loading_failed")
    ELSE Returned([bool |-> provider \in DOMAIN templates])

\* lines 232-243
getTemplate(provider) ==
    IF templates = Null THEN Threw("unknown_provider_template_in_config")
    ELSE IF provider \notin DOMAIN templates THEN Threw("unknown_provider_template_in_config")
    ELSE Returned(templates[provider])

\* getTemplates without the test of lines 246-248
getTemplatesUnchecked == Returned(templates)

\* lines 245-250
getTemplates ==
    IF templates = Null THEN Threw("provider_template_loading_failed")
    ELSE Returned(templates)

\* a call is made and what it gives is noted; the registry is not written
Called(op, provider, outcome) ==
    /\ lastCall.n < MaxCalls
    /\ lastCall' = [n |-> lastCall.n + 1, op |-> op, provider |-> provider,
                    threw |-> outcome.threw, returned |-> outcome.returned]
    /\ UNCHANGED <<providersYaml, templates>>
    /\ UNCHANGED <<configs, syncs, nextSyncId, orchVars, regVars, catVars, tearVars, showVars, togVars, raceVars>>

call_checkProviderTemplateExists(provider) ==
    Called("checkProviderTemplateExists", provider, checkProviderTemplateExists(provider))

call_getTemplate(provider) == Called("getTemplate", provider, getTemplate(provider))

call_getTemplates == Called("getTemplates", "", getTemplates)

\* the providers.yaml files the registry is constructed over
Template == [auth_mode |-> "OAUTH2"]

Documents ==
    {[p |-> Template],
     [p |-> Template, q |-> [alias |-> "p"]],
     [p |-> Template, q |-> [alias |-> "p", auth_mode |-> "API_KEY"]],
     [q |-> [alias |-> "z", auth_mode |-> "API_KEY"]]}

ProvidersYamls == {Missing, Unparseable, EmptyDocument} \cup Documents

\* the providers a template is asked for
AskedProviders == {"p", "q", "z"}

\* lines 20-22: the registry is constructed
InitTemplates ==
    /\ configs = <<>>
    /\ syncs = {}
    /\ nextSyncId = 1
    /\ OrchUnused
    /\ RegIdle
    /\ CatIdle
    /\ TearIdle
    /\ ShowIdle
    /\ TogIdle
    /\ RaceIdle
    /\ providersYaml \in ProvidersYamls
    /\ templates = getTemplatesFromFile(providersYaml)
    /\ lastCall = NoCall

NextTemplates ==
    \/ \E provider \in AskedProviders : call_checkProviderTemplateExists(provider)
    \/ \E provider \in AskedProviders : call_getTemplate(provider)
    \/ call_getTemplates
    \/ \E provider \in Providers, environment_id \in Environments, nanoid \in Nanoids :
          createEmptyProviderConfig(provider, environment_id, nanoid)

SpecTemplates == InitTemplates /\ [][NextTemplates]_vars

(***************************************************************************)
(* createEmptyProviderConfig (config.service.ts:160-178) called by two     *)
(* callers at once.  The call awaits the count (lines 161-165) and then    *)
(* the insert (lines 167-171, 156): one action for each, and the other     *)
(* caller may run between the two.                                         *)
(***************************************************************************)
RaceUnchanged ==
    UNCHANGED <<syncs, nextSyncId, connections, schedules, files, flowConfigs, isCloud,
                del, orchVars, catVars, tearVars, tplVars, showVars, togVars>>

\* lines 161-165: the count of the non-deleted rows is read
createEmpty_count(caller, provider, environment_id) ==
    /\ race[caller].pc = "idle"
    /\ race' = [race EXCEPT ![caller] =
                   [pc |-> "insert", provider |-> provider,
                    environment_id |-> environment_id,
                    count |-> CountByProvider(provider, environment_id),
                    inserted |-> 0]]
    /\ UNCHANGED <<configs, keyClash>>
    /\ RaceUnchanged

\* lines 167-177, 154-158: the row is inserted under the key the count
\* read earlier gives
createEmpty_insert(caller, nanoid) ==
    /\ race[caller].pc = "insert"
    /\ configs' = InsertConfig(configs,
                     [environment_id |-> race[caller].environment_id,
                      unique_key |-> EmptyConfigKey(race[caller].provider,
                                                    race[caller].count, nanoid),
                      provider |-> race[caller].provider,
                      deleted |-> FALSE])
    /\ race' = [race EXCEPT ![caller].pc = "done", ![caller].inserted = Len(configs')]
    /\ keyClash' = (keyClash \/ KeyClash(configs'))
    /\ RaceUnchanged

\* the rows the table may hold when the two calls are made
RaceTables ==
    {<<>>} \cup {<<[environment_id |-> environment_id, unique_key |-> provider,
                    provider |-> provider, deleted |-> deleted]>> :
                    environment_id \in Environments, provider \in Providers,
                    deleted \in BOOLEAN}

InitRace ==
    /\ configs \in RaceTables
    /\ syncs = {}
    /\ nextSyncId = 1
    /\ OrchUnused
    /\ RegIdle
    /\ CatIdle
    /\ TearIdle
    /\ TplIdle
    /\ ShowIdle
    /\ TogIdle
    /\ RaceIdle

NextRace ==
    \/ \E caller \in Callers, provider \in Providers, environment_id \in Environments :
          createEmpty_count(caller, provider, environment_id)
    \/ \E caller \in Callers, nanoid \in Nanoids : createEmpty_insert(caller, nanoid)

SpecRace == InitRace /\ [][NextRace]_vars

(***************************************************************************)
(* Orchestrator.deleteSync and Orchestrator.deleteConfig                   *)
(* (orchestrator.service.ts:93-101): two awaited statements each, one      *)
(* action per statement.  A statement completes or throws, and the call    *)
(* may be interrupted between the two.  Here flowConfigs holds the ids of  *)
(* the flow-config rows and files the ids of the rows that have files.     *)
(***************************************************************************)
ArtifactIds == 1..MaxArtifacts

\* the row of the sync table with that id
SyncRows(syncId) == {s \in syncs : s.id = syncId}

\* deleteSync with its two statements in the other order
DeleteSyncStepRowFirst(pc) ==
    CASE pc = "deleteSync_call" -> "deleteSync"
      [] pc = "deleteSync" -> "deleteScheduleForSync"
      [] pc = "deleteScheduleForSync" -> "done"

\* lines 98-101: the statements of deleteSync, in order
DeleteSyncStep(pc) ==
    CASE pc = "deleteSync_call" -> "deleteScheduleForSync"
      [] pc = "deleteScheduleForSync" -> "deleteSync"
      [] pc = "deleteSync" -> "done"

\* deleteConfig with its two statements in the other order
DeleteConfigStepRowFirst(pc) ==
    CASE pc = "deleteConfig_call" -> "deleteSyncConfig"
      [] pc = "deleteSyncConfig" -> "deleteSyncFilesForConfig"
      [] pc = "deleteSyncFilesForConfig" -> "done"

\* lines 93-96: the statements of deleteConfig, in order
DeleteConfigStep(pc) ==
    CASE pc = "deleteConfig_call" -> "deleteSyncFilesForConfig"
      [] pc = "deleteSyncFilesForConfig" -> "deleteSyncConfig"
      [] pc = "deleteSyncConfig" -> "done"

TearUnchanged ==
    UNCHANGED <<configs, nextSyncId, connections, isCloud, keyClash, del,
                orchVars, catVars, tplVars, showVars, togVars, raceVars>>

\* line 98: deleteSync(syncId) is called
deleteSync_call(syncId) ==
    /\ tear.pc = "idle"
    /\ tear' = [pc |-> DeleteSyncStep("deleteSync_call"), id |-> syncId]
    /\ UNCHANGED <<syncs, schedules, files, flowConfigs>>
    /\ TearUnchanged

\* line 99: await deleteScheduleForSync(syncId)
deleteSync_deleteScheduleForSync ==
    /\ tear.pc = "deleteScheduleForSync"
    /\ schedules' = schedules \ {tear.id}
    /\ tear' = [tear EXCEPT !.pc = DeleteSyncStep(tear.pc)]
    /\ UNCHANGED <<syncs, files, flowConfigs>>
    /\ TearUnchanged

\* line 100: await deleteSync(syncId)
deleteSync_deleteSync ==
    /\ tear.pc = "deleteSync"
    /\ syncs' = syncs \ SyncRows(tear.id)
    /\ tear' = [tear EXCEPT !.pc = DeleteSyncStep(tear.pc)]
    /\ UNCHANGED <<schedules, files, flowConfigs>>
    /\ TearUnchanged

\* line 93: deleteConfig(syncConfigId) is called
deleteConfig_call(syncConfigId) ==
    /\ tear.pc = "idle"
    /\ tear' = [pc |-> DeleteConfigStep("deleteConfig_call"), id |-> syncConfigId]
    /\ UNCHANGED <<syncs, schedules, files, flowConfigs>>
    /\ TearUnchanged

\* line 94: await deleteSyncFilesForConfig(syncConfigId)
deleteConfig_deleteSyncFilesForConfig ==
    /\ tear.pc = "deleteSyncFilesForConfig"
    /\ files' = files \ {tear.id}
    /\ tear' = [tear EXCEPT !.pc = DeleteConfigStep(tear.pc)]
    /\ UNCHANGED <<syncs, schedules, flowConfigs>>
    /\ TearUnchanged

\* line 95: await deleteSyncConfig(syncConfigId)
deleteConfig_deleteSyncConfig ==
    /\ tear.pc = "deleteSyncConfig"
    /\ flowConfigs' = flowConfigs \ {tear.id}
    /\ tear' = [tear EXCEPT !.pc = DeleteConfigStep(tear.pc)]
    /\ UNCHANGED <<syncs, schedules, files>>
    /\ TearUnchanged

\* the awaited statement throws, or the call is interrupted before it: the
\* statement has no effect, the statements after it do not run and the
\* call ends
tear_throws ==
    /\ tear.pc \notin {"idle", "done"}
    /\ tear' = [pc |-> "idle", id |-> 0]
    /\ UNCHANGED <<syncs, schedules, files, flowConfigs>>
    /\ TearUnchanged

\* the call has returned
tear_return ==
    /\ tear.pc = "done"
    /\ tear' = [pc |-> "idle", id |-> 0]
    /\ UNCHANGED <<syncs, schedules, files, flowConfigs>>
    /\ TearUnchanged

\* every sync has its schedule and every flow config its files
InitTeardown ==
    /\ configs = <<>>
    /\ syncs = {[id |-> id, nango_connection_id |-> 1, name |-> 1] : id \in ArtifactIds}
    /\ nextSyncId = MaxArtifacts + 1
    /\ schedules = ArtifactIds
    /\ flowConfigs = ArtifactIds
    /\ files = ArtifactIds
    /\ connections = <<>>
    /\ isCloud \in BOOLEAN
    /\ keyClash = FALSE
    /\ del = DelIdle
    /\ OrchUnused
    /\ CatIdle
    /\ TearIdle
    /\ TplIdle
    /\ ShowIdle
    /\ TogIdle
    /\ RaceIdle

NextTeardown ==
    \/ \E syncId \in ArtifactIds : deleteSync_call(syncId)
    \/ deleteSync_deleteScheduleForSync
    \/ deleteSync_deleteSync
    \/ \E syncConfigId \in ArtifactIds : deleteConfig_call(syncConfigId)
    \/ deleteConfig_deleteSyncFilesForConfig
    \/ deleteConfig_deleteSyncConfig
    \/ tear_throws
    \/ tear_return

SpecTeardown == InitTeardown /\ [][NextTeardown]_vars

(***************************************************************************)
(* The cascade of deleteProviderConfig over the dependent tables: configs  *)
(* are created and deleted, connections are added and flows deployed.      *)
(***************************************************************************)
NextCascade ==
    \/ \E provider \in Providers, environment_id \in Environments, nanoid \in Nanoids :
          createEmptyProviderConfig(provider, environment_id, nanoid)
    \/ \E environment_id \in Environments, provider_config_key \in UniqueKeys :
          createConnection(environment_id, provider_config_key)
    \/ \E id \in RowIds(configs) : deployFlow(id)
    \/ \E id \in 1..MaxConfigs, environmentId \in Environments,
          providerConfigKey \in UniqueKeys :
          deleteProviderConfig_call(id, environmentId, providerConfigKey)
    \/ deleteProviderConfig_deleteSyncs
    \/ deleteProviderConfig_deleteSyncFiles
    \/ deleteProviderConfig_deleteSyncConfig
    \/ deleteProviderConfig_updateConfig
    \/ deleteProviderConfig_updateConnections
    \/ deleteProviderConfig_interrupted
    \/ deleteProviderConfig_end

SpecCascade == Init /\ [][NextCascade]_vars

(***************************************************************************)
(* The flow catalog (Show.tsx): getIntegrationFlows, hasSimilarFlow and    *)
(* containsSameEndpoint.                                                   *)
(*                                                                         *)
(* A flow is a record [id, name, type, returns, endpoints].  An installed  *)
(* flow carries its persisted id (1, 2, ...); a template has none (0).     *)
(* An endpoint is an object with one key, the verb, whose value is the     *)
(* path: a function from the verb to the path.                             *)
(*                                                                         *)
(* JavaScript values that the comparisons of containsSameEndpoint and      *)
(* hasSimilarFlow meet are tagged: [str |-> s] is a string, [arr |-> a] an *)
(* array, Undefined the value of a missing index or property.              *)
(***************************************************************************)

Truthy(value) == value # Undefined /\ value # [str |-> ""]

\* a === b: arrays are equal only to themselves, and every array compared
\* here is a fresh one made by Object.entries
StrictEquals(a, b) ==
    IF "arr" \in DOMAIN a \/ "arr" \in DOMAIN b THEN FALSE ELSE a = b

\* Object.entries(obj): the array of the [key, value] pairs of obj
RECURSIVE ObjectEntries(_)
ObjectEntries(obj) ==
    IF DOMAIN obj = {} THEN <<>>
    ELSE LET key == CHOOSE k \in DOMAIN obj : TRUE
         IN  <<[arr |-> <<key, obj[key]>>]>>
                 \o ObjectEntries([k \in DOMAIN obj \ {key} |-> obj[k]])

\* array[index], indices from 0
At(array, index) ==
    IF index + 1 \in DOMAIN array THEN array[index + 1] ELSE Undefined

\* the property key a value is converted to: a string is itself, a pair
\* is its elements joined by a comma
ToPropertyKey(value) ==
    IF "arr" \in DOMAIN value THEN value.arr[1] \o "," \o value.arr[2]
    ELSE IF "str" \in DOMAIN value THEN value.str
    ELSE "undefined"

\* obj[key]
Get(obj, key) == IF key \in DOMAIN obj THEN [str |-> obj[key]] ELSE Undefined

\* lines 307-318.  endpointA is the whole array of entries: endpointA[0]
\* is the first [verb, path] pair and endpointA[1] the second entry,
\* which an endpoint object with one key does not have.
containsSameEndpoint(flowA, flowB) ==
    \E a \in DOMAIN flowA.endpoints, b \in DOMAIN flowB.endpoints :
        LET endpointObjA == flowA.endpoints[a]
            endpointObjB == flowB.endpoints[b]
            endpointA == ObjectEntries(endpointObjA)
            looked == Get(endpointObjB, ToPropertyKey(At(endpointA, 0)))
        IN  Truthy(looked) /\ StrictEquals(looked, At(endpointA, 1))

\* flow.returns.find((model) => modelsName.has(model))
FindModel(returns, modelsName) ==
    LET hits == {i \in DOMAIN returns : returns[i] \in modelsName}
    IN  IF hits = {} THEN Undefined ELSE [str |-> returns[First(hits)]]

\* hasSimilarFlow without the test of lines 326-328
hasSimilarFlowWithoutReturns(templateFlow, list) ==
    \E i \in DOMAIN list :
        LET flow == list[i]
        IN  \/ flow.type = templateFlow.type /\ flow.name = templateFlow.name
            \/ containsSameEndpoint(flow, templateFlow)

\* lines 319-336: every branch of the loop returns true, so the result is
\* whether some flow of the list takes one
hasSimilarFlow(templateFlow, list) ==
    LET modelsName == Range(templateFlow.returns)
    IN  \E i \in DOMAIN list :
            LET flow == list[i]
            IN  \/ flow.type = templateFlow.type /\ flow.name = templateFlow.name
                \/ flow.type = "sync" /\ Truthy(FindModel(flow.returns, modelsName))
                \/ containsSameEndpoint(flow, templateFlow)

\* the installed flows are listed only when no template is similar to them
FinalFlowsTemplatesWin(dbFlows, templateFlows) ==
    SelectSeq(dbFlows, LAMBDA flow : ~hasSimilarFlow(flow, templateFlows))
        \o templateFlows

\* lines 292-300
FinalFlows(dbFlows, templateFlows) ==
    dbFlows \o SelectSeq(templateFlows,
                         LAMBDA templateFlow : ~hasSimilarFlow(templateFlow, dbFlows))

\* the integration the request names
CatalogKey == "my-p"
CatalogRow(deleted) ==
    [environment_id |-> 1, unique_key |-> CatalogKey, provider |-> "p", deleted |-> deleted]

\* line 287: the first entry of the templates for the integration's provider
TemplateOf(provider) ==
    LET matching == {i \in DOMAIN availablePublicFlows :
                        availablePublicFlows[i].providerConfigKey = provider}
    IN  IF matching = {} THEN Undefined ELSE availablePublicFlows[First(matching)]

\* lines 262-305
getIntegrationFlows ==
    /\ response.status = 0
    /\ LET integration == getProviderConfig(CatalogKey, 1)
           template == TemplateOf(configs[integration].provider)
           dbFlows == IF allFlows = Null THEN <<>>
                      ELSE allFlows.actions \o allFlows.syncs
           templateFlows == IF template = Undefined THEN <<>>
                            ELSE template.actions \o template.syncs
       IN  response' =
             IF request = "invalid_query"
                 THEN [status |-> 400, code |-> "invalid_query_params", flows |-> <<>>]
             ELSE IF request = "invalid_params"
                 THEN [status |-> 400, code |-> "invalid_uri_params", flows |-> <<>>]
             ELSE IF integration = 0
                 THEN [status |-> 404, code |-> "not_found", flows |-> <<>>]
             ELSE [status |-> 200, code |-> "",
                   flows |-> FinalFlows(dbFlows, templateFlows)]
    /\ UNCHANGED <<configs, syncs, nextSyncId, request, availablePublicFlows, allFlows,
                   orchVars, regVars, tearVars, tplVars, showVars, togVars, raceVars>>

(***************************************************************************)
(* The requests the catalog is resolved for.                               *)
(***************************************************************************)
FlowNames == {"a", "b"}
FlowTypes == {"action", "sync"}

\* what installed flows return and serve, and what templates do
InstalledReturns == {<<"M">>, <<"N", "M">>}
TemplateReturns == {<<"M">>, <<"N">>}
InstalledEndpoints == {<<[GET |-> "/x"]>>, <<[POST |-> "/x"], [GET |-> "/y"]>>}
TemplateEndpoints == {<<[GET |-> "/x"]>>, <<[GET |-> "/y"]>>}

Flows(type, returnsOf, endpointsOf) ==
    {[id |-> 0, name |-> name, type |-> type, returns |-> returns, endpoints |-> endpoints] :
        name \in FlowNames, returns \in returnsOf, endpoints \in endpointsOf}

SeqsOfLen(S, n) == [1..n -> S]

\* the lists of at most max flows, the actions apart from the syncs
FlowLists(max, returnsOf, endpointsOf) ==
    UNION {{[actions |-> as, syncs |-> ss] :
               as \in SeqsOfLen(Flows("action", returnsOf, endpointsOf), na),
               ss \in SeqsOfLen(Flows("sync", returnsOf, endpointsOf), total - na)} :
           <<na, total>> \in {<<na, total>> \in (0..max) \X (0..max) : na <= total}}

\* the rows of the sync-config table carry their ids
WithIds(list) ==
    [actions |-> [i \in DOMAIN list.actions |-> [list.actions[i] EXCEPT !.id = i]],
     syncs |-> [i \in DOMAIN list.syncs |->
                   [list.syncs[i] EXCEPT !.id = Len(list.actions) + i]]]

InstalledLists ==
    {WithIds(list) : list \in FlowLists(MaxInstalled, InstalledReturns, InstalledEndpoints)}

\* the flows of a template are keyed by name, per type
NamesDistinct(flows) ==
    \A i \in DOMAIN flows, j \in DOMAIN flows : flows[i].name = flows[j].name => i = j

Templates(provider) ==
    {[providerConfigKey |-> provider, actions |-> list.actions, syncs |-> list.syncs] :
        list \in {l \in FlowLists(MaxTemplates, TemplateReturns, TemplateEndpoints) :
                     NamesDistinct(l.actions) /\ NamesDistinct(l.syncs)}}

\* the template of another provider, listed first
OtherTemplate ==
    [providerConfigKey |-> "q",
     actions |-> <<>>,
     syncs |-> <<[id |-> 0, name |-> "a", type |-> "sync", returns |-> <<"M">>,
                  endpoints |-> <<[GET |-> "/x"]>>]>>]

NoResponse == [status |-> 0, code |-> "", flows |-> <<>>]

InitCatalog ==
    /\ syncs = {}
    /\ nextSyncId = 1
    /\ OrchUnused
    /\ RegIdle
    /\ response = NoResponse
    /\ TearIdle
    /\ TplIdle
    /\ ShowIdle
    /\ TogIdle
    /\ RaceIdle
    /\ request \in {"ok", "invalid_query", "invalid_params"}
    /\ configs \in {<<>>, <<CatalogRow(TRUE)>>, <<CatalogRow(FALSE)>>}
    /\ IF request = "ok" /\ getProviderConfig(CatalogKey, 1) # 0
       THEN /\ allFlows \in {Null} \cup InstalledLists
            /\ availablePublicFlows \in
                   {<<OtherTemplate>>} \cup {<<OtherTemplate, template>> :
                                                template \in Templates("p")}
       ELSE \* a request that is refused reads neither
            /\ allFlows = WithIds([actions |-> <<>>, syncs |-> OtherTemplate.syncs])
            /\ availablePublicFlows =
                   <<[OtherTemplate EXCEPT !.providerConfigKey = "p"]>>

NextCatalog == getIntegrationFlows

SpecCatalog == InitCatalog /\ [][NextCatalog]_vars

(***************************************************************************)
(* EndpointsShow.byGroup (Show.tsx:18-71): the flows of the catalog are    *)
(* grouped by the first segment of each endpoint's path and sorted inside  *)
(* each group.                                                             *)
(*                                                                         *)
(* A path is the sequence of its segments: <<"customers", "b">> is         *)
(* "/customers/b" and <<"">> is "/".  The number of '/' in a path is the   *)
(* length of the sequence, and path.split('/')[1] is its first segment.    *)
(***************************************************************************)
allowedGroup == {"customers", "invoices", "payments", "tickets"}

\* the segments of the paths drawn, in the order of string comparison
SegmentOrder == <<"", "a", "b", "customers">>

SegmentRank(segment) == CHOOSE i \in DOMAIN SegmentOrder : SegmentOrder[i] = segment

\* a.path > b.path for two paths with as many segments
RECURSIVE PathGreater(_, _)
PathGreater(pathA, pathB) ==
    IF pathA = <<>> \/ pathB = <<>> THEN pathA # <<>>
    ELSE IF Head(pathA) = Head(pathB) THEN PathGreater(Tail(pathA), Tail(pathB))
    ELSE SegmentRank(Head(pathA)) > SegmentRank(Head(pathB))

\* (path.match(/\//g) || []).length
Slashes(path) == Len(path)

\* the comparator without the path lengths of lines 53-56
compareWithoutDepth(a, b) ==
    IF a.endpoint.verb = "GET" /\ b.endpoint.verb # "GET" THEN -1
    ELSE IF a.endpoint.verb = "POST" /\ b.endpoint.verb = "PUT" THEN -1
    ELSE IF a.endpoint.verb = "PUT" /\ b.endpoint.verb = "PATCH" THEN -1
    ELSE IF a.endpoint.verb = "PATCH" /\ b.endpoint.verb = "DELETE" THEN -1
    ELSE IF PathGreater(a.endpoint.path, b.endpoint.path) THEN 1 ELSE -1

\* lines 51-66: the comparator given to sort
compare(a, b) ==
    LET lenA == Slashes(a.endpoint.path)
        lenB == Slashes(b.endpoint.path)
    IN  IF lenA > lenB THEN 1
        ELSE IF lenA < lenB THEN -1
        ELSE IF a.endpoint.verb = "GET" /\ b.endpoint.verb # "GET" THEN -1
        ELSE IF a.endpoint.verb = "POST" /\ b.endpoint.verb = "PUT" THEN -1
        ELSE IF a.endpoint.verb = "PUT" /\ b.endpoint.verb = "PATCH" THEN -1
        ELSE IF a.endpoint.verb = "PATCH" /\ b.endpoint.verb = "DELETE" THEN -1
        ELSE IF PathGreater(a.endpoint.path, b.endpoint.path) THEN 1 ELSE -1

\* Array.prototype.sort is an insertion of each element, from the left,
\* into the elements sorted so far.  Whether the element x inserted goes
\* before an element y already placed is what the comparator answers, and
\* the engine decides in which order it hands the two over: "ab" calls
\* compare(x, y), "ba" calls compare(y, x).
GoesBefore(x, y, order) ==
    IF order = "ab" THEN compare(x, y) < 0 ELSE compare(y, x) > 0

RECURSIVE Insert(_, _, _)
Insert(sorted, x, order) ==
    IF sorted = <<>> THEN <<x>>
    ELSE LET last == sorted[Len(sorted)]
         IN  IF GoesBefore(x, last, order)
             THEN Append(Insert(SubSeq(sorted, 1, Len(sorted) - 1), x, order), last)
             ELSE Append(sorted, x)

RECURSIVE Sort(_, _)
Sort(list, order) ==
    IF list = <<>> THEN <<>>
    ELSE Insert(Sort(SubSeq(list, 1, Len(list) - 1), order), list[Len(list)], order)

\* lines 25-43, for one flow: the entries of its endpoints, each with the
\* name of its group; an endpoint whose path has no first segment is left out
RECURSIVE EntriesOf(_, _)
EntriesOf(flow, endpoints) ==
    IF endpoints = <<>> THEN <<>>
    ELSE LET entries == At(ObjectEntries(Head(endpoints)), 0).arr
             paths == <<"">> \o entries[2]
             path == paths[2]
             groupName == IF path \in allowedGroup THEN path ELSE "others"
             rest == EntriesOf(flow, Tail(endpoints))
         IN  IF Len(paths) < 2 \/ path = ""
             THEN rest
             ELSE <<[group |-> groupName,
                     flow |-> [name |-> flow.name,
                               endpoint |-> [verb |-> entries[1], path |-> entries[2]]]]>>
                      \o rest

\* lines 25-44: the entries of all flows, in the order they are pushed
RECURSIVE AllEntries(_)
AllEntries(flows) ==
    IF flows = <<>> THEN <<>>
    ELSE EntriesOf(Head(flows), Head(flows).endpoints) \o AllEntries(Tail(flows))

\* Object.entries(tmp): the names of the groups in the order they were made
RECURSIVE GroupNames(_, _)
GroupNames(entries, seen) ==
    IF entries = <<>> THEN <<>>
    ELSE IF Head(entries).group \in seen THEN GroupNames(Tail(entries), seen)
    ELSE <<Head(entries).group>> \o GroupNames(Tail(entries), seen \cup {Head(entries).group})

\* tmp[groupName]: the entries pushed into the group, in order
GroupEntries(entries, groupName) ==
    LET mine == SelectSeq(entries, LAMBDA entry : entry.group = groupName)
    IN  [i \in DOMAIN mine |-> mine[i].flow]

\* lines 18-71
ByGroup(shown, order) ==
    IF shown = Undefined THEN <<>>
    ELSE LET entries == AllEntries(shown.flows)
             names == GroupNames(entries, {})
         IN  [g \in DOMAIN names |->
                 [name |-> names[g],
                  flows |-> Sort(GroupEntries(entries, names[g]), order)]]

\* the page is drawn
EndpointsShow ==
    /\ byGroup = Null
    /\ byGroup' = [arr |-> ByGroup(data, engine)]
    /\ UNCHANGED <<data, engine>>
    /\ UNCHANGED <<configs, syncs, nextSyncId, orchVars, regVars, catVars, tearVars, tplVars,
                   togVars, raceVars>>

\* the flows a page is given: each has a name of its own and one endpoint,
\* or two
Verbs == {"GET", "POST", "PUT"}
Paths == {<<"customers">>, <<"customers", "b">>, <<"a">>, <<"b", "a">>}

ShownEndpoints ==
    {<<[v \in {verb} |-> path]>> : verb \in Verbs, path \in Paths}
        \cup {<<[GET |-> <<"">>], [GET |-> <<"customers">>]>>,
              <<[POST |-> <<"customers">>], [GET |-> <<"a">>]>>}

ShownNames == <<"f1", "f2", "f3", "f4">>

\* the lists of n flows, named in the order of the list
ShownLists(n) ==
    {[i \in 1..n |-> [name |-> ShownNames[i], endpoints |-> endpoints[i]]] :
        endpoints \in [1..n -> ShownEndpoints]}

InitShow ==
    /\ configs = <<>>
    /\ syncs = {}
    /\ nextSyncId = 1
    /\ OrchUnused
    /\ RegIdle
    /\ CatIdle
    /\ TearIdle
    /\ TplIdle
    /\ TogIdle
    /\ RaceIdle
    /\ byGroup = Null
    /\ engine \in {"ab", "ba"}
    /\ data \in {Undefined} \cup {[flows |-> flows] : flows \in UNION {ShownLists(n) : n \in 0..MaxFlows}}

NextShow == EndpointsShow

SpecShow == InitShow /\ [][NextShow]_vars

(***************************************************************************)
(* ScriptToggle (Show.tsx:124-253): the switch of one flow and its dialog. *)
(* onEnable and onDisable send one request, and on success wait for the   *)
(* catalog to be fetched again (mutate) before they close the dialog.      *)
(* One action per stretch of a handler between two awaits.                 *)
(***************************************************************************)
\* lines 143-177: the request onEnable sends for the flow
EnableRequestSwapped(flow) ==
    IF flow.id = 0 THEN [api |-> "apiFlowEnable", id |-> flow.id]
    ELSE [api |-> "apiPreBuiltDeployFlow", id |-> 0]

EnableRequest(flow) ==
    IF flow.id # 0 THEN [api |-> "apiFlowEnable", id |-> flow.id]
    ELSE [api |-> "apiPreBuiltDeployFlow", id |-> 0]

\* lines 158, 173, 200: the toast of a success
SuccessToast(api) ==
    IF api = "apiFlowEnable" THEN "Enabled successfully"
    ELSE IF api = "apiPreBuiltDeployFlow" THEN "Deployed successfully"
    ELSE "Disabled successfully"

ToggleUnchanged ==
    UNCHANGED <<configs, syncs, nextSyncId, orchVars, regVars, catVars, tearVars, tplVars,
                showVars, raceVars>>

\* lines 134-138: the switch is clicked
toggleSync ==
    /\ toggle.pc = "idle"
    /\ toggle.flow.type = "sync"
    /\ toggle' = [toggle EXCEPT !.open = ~toggle.open]
    /\ ToggleUnchanged

\* lines 223-225, 240-242 and onOpenChange: Cancel, or a click outside,
\* whether a handler waits or not
DialogClose ==
    /\ toggle.open
    /\ toggle' = [toggle EXCEPT !.open = FALSE]
    /\ ToggleUnchanged

\* lines 140-154, 162-169: Enable is clicked, up to the await of the request
onEnable_call ==
    /\ toggle.pc = "idle"
    /\ toggle.n < MaxClicks
    /\ toggle.open
    /\ ~toggle.flow.enabled
    /\ toggle' = [toggle EXCEPT !.pc = "request", !.handler = "onEnable",
                                !.closure = toggle.flow, !.loading = TRUE,
                                !.requests = <<EnableRequest(toggle.flow)>>,
                                !.toast = "", !.refetched = 0, !.closed = FALSE,
                                !.n = @ + 1]
    /\ ToggleUnchanged

\* lines 182-196: Disable is clicked, up to the return of line 184 or the
\* await of the request
onDisable_call ==
    /\ toggle.pc = "idle"
    /\ toggle.n < MaxClicks
    /\ toggle.open
    /\ toggle.flow.enabled
    /\ toggle' = [toggle EXCEPT !.pc = IF toggle.flow.id = 0 THEN "idle" ELSE "request",
                                !.handler = "onDisable",
                                !.closure = toggle.flow,
                                !.requests = IF toggle.flow.id = 0 THEN <<>>
                                             ELSE <<[api |-> "apiFlowDisable",
                                                     id |-> toggle.flow.id]>>,
                                !.toast = "", !.refetched = 0, !.closed = FALSE,
                                !.n = @ + 1]
    /\ ToggleUnchanged

\* lines 155-159, 170-174, 197-201: the request is answered, with an error
\* or without; after an error onEnable goes on to line 179
request_answered(error) ==
    /\ toggle.pc = "request"
    /\ toggle' =
          IF error
          THEN [toggle EXCEPT !.pc = "idle", !.toast = "An unexpected error occurred",
                              !.loading = IF toggle.handler = "onEnable" THEN FALSE ELSE @]
          ELSE [toggle EXCEPT !.pc = "mutate",
                              !.toast = SuccessToast(toggle.requests[1].api)]
    /\ ToggleUnchanged

\* the flows a toggle is shown for: with a persisted id or without
ToggleFlows ==
    [id : {0, 1}, type : {"sync", "action"}, enabled : BOOLEAN]

\* lines 159-160, 174-175, 201-202, 179: the catalog is fetched again and
\* the page drawn with what it holds; the dialog is closed
mutate_resolved ==
    /\ toggle.pc = "mutate"
    /\ \E flow \in {f \in ToggleFlows : f.type = toggle.flow.type} :
          toggle' = [toggle EXCEPT !.pc = "idle", !.flow = flow,
                                   !.refetched = @ + 1, !.open = FALSE,
                                   !.closed = TRUE,
                                   !.loading = IF toggle.handler = "onEnable" THEN FALSE ELSE @]
    /\ ToggleUnchanged

\* an await rejects (the request, or the fetch of the catalog): the handler
\* is left where it was, and onEnable never reaches line 179
await_rejected ==
    /\ toggle.pc \in {"request", "mutate"}
    /\ toggle' = [toggle EXCEPT !.pc = "idle"]
    /\ ToggleUnchanged

InitToggle ==
    /\ configs = <<>>
    /\ syncs = {}
    /\ nextSyncId = 1
    /\ OrchUnused
    /\ RegIdle
    /\ CatIdle
    /\ TearIdle
    /\ TplIdle
    /\ ShowIdle
    /\ RaceIdle
    /\ \E flow \in ToggleFlows : toggle = [NoToggle EXCEPT !.flow = flow, !.closure = flow]

NextToggle ==
    \/ toggleSync
    \/ DialogClose
    \/ onEnable_call
    \/ onDisable_call
    \/ \E error \in BOOLEAN : request_answered(error)
    \/ mutate_resolved
    \/ await_rejected

SpecToggle == InitToggle /\ [][NextToggle]_vars

(***************************************************************************)
(* Claims about the endpoints page, checked under SpecShow.                *)
(***************************************************************************)
Drawn == byGroup # Null

\* the flows of a group of the page, in the order they are shown
Shown(g) == byGroup.arr[g].flows

\* C16: in every group of the page, whatever the order the flows came in,
\* a GET endpoint is shown before a POST endpoint of the same path.
C16_GetBeforePostOfSamePath ==
    Drawn =>
        \A g \in DOMAIN byGroup.arr :
            \A i, j \in DOMAIN Shown(g) :
                /\ Shown(g)[i].endpoint.verb = "GET"
                /\ Shown(g)[j].endpoint.verb = "POST"
                /\ Shown(g)[i].endpoint.path = Shown(g)[j].endpoint.path
                => i < j

\* C17: in every group of the page, an endpoint whose path has fewer '/'
\* is shown before every endpoint whose path has more, whatever their
\* verbs, their paths and the order the flows came in.
C17_ShallowerPathFirst ==
    Drawn =>
        \A g \in DOMAIN byGroup.arr :
            \A i, j \in DOMAIN Shown(g) :
                Len(Shown(g)[i].endpoint.path) < Len(Shown(g)[j].endpoint.path)
                => i < j

\* a page drawn from flows that came with the deeper path first, its verb
\* a GET, and the other's path the smaller string
C17_Witness ==
    /\ Drawn
    /\ data # Undefined
    /\ Len(data.flows) = 3
    /\ data.flows[1].endpoints = <<[GET |-> <<"b", "a">>]>>
    /\ data.flows[2].endpoints = <<[POST |-> <<"a">>]>>
    /\ data.flows[3].endpoints = <<[PUT |-> <<"a">>]>>
    /\ Len(byGroup.arr) = 1
    /\ Shown(1)[3].name = "f1"

\* the orders the same flows can come in
Reordered(flows) ==
    {[i \in DOMAIN flows |-> flows[f[i]]] :
        f \in {h \in [DOMAIN flows -> DOMAIN flows] :
                  \A i, j \in DOMAIN flows : h[i] = h[j] => i = j}}

\* C18: the page drawn does not depend on the order the flows came in:
\* the same flows in any other order give the same groups in the same
\* order, with the same flows in the same order inside each.
C18_IndependentOfInputOrder ==
    (Drawn /\ data # Undefined) =>
        \A flows \in Reordered(data.flows) :
            ByGroup([flows |-> flows], engine) = byGroup.arr

(***************************************************************************)
(* Claims about the Orchestrator, checked under SpecOrch.                  *)
(***************************************************************************)
Done == orch.pc = "done"

HasSyncRecord(connection, syncName) ==
    \E s \in syncs : s.nango_connection_id = connection.id /\ s.name = syncName

\* C1: when the start-continuous-sync call fails for exactly one connection k
\* of a request (and nothing else fails), createSyncs returns false and every
\* connection of that request other than k, those after k included, has a
\* persisted Sync record.
C1_PartialFailureIsolation ==
    (/\ Done
     /\ Len(failures) = 1
     /\ failures[1].call = "startContinuous")
    => LET req == syncArgs[failures[1].request]
           k == failures[1].connection
       IN  /\ orch.ret = FALSE
           /\ \A j \in DOMAIN req.connections :
                 j # k => HasSyncRecord(req.connections[j], req.syncName)

\* C2: createSyncs hands every request of the list to create exactly once, in
\* order, whatever the earlier results were, and returns true exactly when
\* every create call returned true (true for the empty list).
C2_EveryRequestAttempted ==
    /\ \A j \in DOMAIN attempts : attempts[j] = j
    /\ Done =>
         /\ attempts = [j \in 1..Len(syncArgs) |-> j]
         /\ Len(results) = Len(syncArgs)
         /\ orch.ret = (\A j \in DOMAIN results : results[j])

\* C2 witness: the first request failed, the second was still attempted and
\* succeeded, and createSyncs returned false.
C2_Witness ==
    /\ Done
    /\ Len(syncArgs) >= 2
    /\ results[1] = FALSE
    /\ results[2] = TRUE
    /\ attempts[2] = 2
    /\ orch.ret = FALSE

\* the start commands issued for a request, in the order they were issued
StartCmdsOf(req) == SelectSeq(startCmds, LAMBDA cmd : cmd.syncName = req.syncName)

\* the Sync records persisted for a connection of a request
SyncRecordsOf(req, connection) ==
    {sync \in syncs : sync.nango_connection_id = connection.id /\ sync.name = req.syncName}

\* C22: no start command is issued for a Sync record that does not exist,
\* and for every request create returned true for, the start commands are
\* one for every connection of the request, in the submitted order, each
\* with the one Sync record persisted for that connection, with a
\* ProviderConfig that is not null, and with the flow name and the flow
\* spec of the request.
C22_TrueMeansSyncThenStart ==
    /\ \A k \in DOMAIN startCmds : \E sync \in syncs : sync.id = startCmds[k].sync
    /\ \A r \in DOMAIN results :
          results[r] =>
              LET req == syncArgs[r]
                  cmds == StartCmdsOf(req)
              IN  /\ Len(cmds) = Len(req.connections)
                  /\ \A j \in DOMAIN req.connections :
                        /\ Cardinality(SyncRecordsOf(req, req.connections[j])) = 1
                        /\ cmds[j].connection = req.connections[j]
                        /\ cmds[j].sync \in {sync.id : sync \in SyncRecordsOf(req, req.connections[j])}
                        /\ cmds[j].syncConfig # 0
                        /\ cmds[j].syncData.models = req.sync.models
\* the error-level entries of the activity log, in the order they were written
ErrorEntries == SelectSeq(activityLog, LAMBDA entry : entry.level = "error")

\* the exceptions raised while the r-th request was processed
FailuresOf(r) == {k \in DOMAIN failures : failures[k].request = r}

\* the catch block of create holds an exception it has not logged yet
Catching == orch.pc = "create_catch"

\* C23: every exception raised while a request is processed (by the config
\* lookup, createSync, the acquisition of the sync client or the start) is
\* caught by create: it is the only one of its request, the k-th exception
\* gives the k-th error-level entry, which names the flow and the number of
\* connections of its request, and its request contributes false; a request
\* that contributes true raised none and has no error-level entry; and
\* createSyncs ends by returning a boolean, with a result for every request.
C23_ExceptionsCaughtAndLogged ==
    /\ Len(ErrorEntries) = Len(failures) - (IF Catching THEN 1 ELSE 0)
    /\ \A k \in DOMAIN ErrorEntries :
          LET req == syncArgs[failures[k].request]
          IN  /\ ErrorEntries[k].syncName = req.syncName
              /\ ErrorEntries[k].connections = Len(req.connections)
    /\ \A r \in DOMAIN syncArgs : Cardinality(FailuresOf(r)) <= 1
    /\ \A r \in DOMAIN results :
          /\ results[r] = (FailuresOf(r) = {})
          /\ results[r] =>
                \A k \in DOMAIN ErrorEntries : ErrorEntries[k].syncName # syncArgs[r].syncName
    /\ Done =>
          /\ orch.ret \in BOOLEAN
          /\ Len(results) = Len(syncArgs)
          /\ orch.ret = (failures = <<>>)

\* the acquisition of the sync client threw for the first request, with no
\* activity log id and no debug, and the second request succeeded:
\* createSyncs returned false and the one error-level entry is the first's
C23_Witness ==
    /\ Done
    /\ ~debug
    /\ activityLogId = 0
    /\ Len(syncArgs) = 2
    /\ Len(failures) = 1
    /\ failures[1].call = "getInstance"
    /\ results = <<FALSE, TRUE>>
    /\ Len(ErrorEntries) = 1
    /\ ErrorEntries[1].syncName = syncArgs[1].syncName
    /\ orch.ret = FALSE

(***************************************************************************)
(* Claims about deleteProviderConfig and the registry.                     *)
(***************************************************************************)
DelDone == del.pc = "done"

ConfigDeleted(id) == id \in RowIds(configs) /\ configs[id].deleted = TRUE

\* C3: the soft delete of the config row is the commit point: when it
\* affects no row the call returns false, the update ran once and the
\* connection rows are as they were at the call; the connection update is
\* only reached, and true only returned, after the update affected a row.
C3_CommitPoint ==
    /\ del.pc = "updateConnections" => del.updated >= 1
    /\ DelDone =>
         /\ del.updates = 1
         /\ del.updated = 0 => (del.ret = FALSE /\ connections = del.connections0)
         /\ del.ret = TRUE => del.updated >= 1

\* C3 witness: the call returned false on an id with no live row although a
\* live connection sits under the environment and key it was given.
C3_Witness ==
    /\ DelDone
    /\ del.updated = 0
    /\ del.ret = FALSE
    /\ LiveConnectionsUnder(del.environmentId, del.providerConfigKey) # {}

\* the effect of each statement of deleteProviderConfig
SyncsGone ==
    /\ SyncsOf(del.environmentId, del.providerConfigKey) = {}
    /\ schedules \cap del.syncIds0 = {}
FilesGone == del.id \notin files
FlowConfigsGone == del.id \notin flowConfigs
ConnectionsDeleted ==
    \A c \in ConnectionsUnder(del.environmentId, del.providerConfigKey) :
        connections[c].deleted = TRUE

\* the statements run in the order 1 to 5: at each statement the earlier
\* ones have taken effect and the later ones have not
CascadeOrder(filesGone) ==
    /\ del.pc = "deleteSyncsByProviderConfig" =>
          /\ (del.id \in files) = del.hadFiles
          /\ (del.id \in flowConfigs) = del.hadFlowConfigs
    /\ del.pc \in {"deleteSyncFilesForConfig", "deleteSyncConfigByConfigId",
                   "updateConfig"} => SyncsGone
    /\ del.pc = "deleteSyncFilesForConfig" =>
          /\ (del.id \in files) = del.hadFiles
          /\ (del.id \in flowConfigs) = del.hadFlowConfigs
    /\ del.pc \in {"deleteSyncConfigByConfigId", "updateConfig", "updateConnections"} =>
          filesGone
    /\ del.pc = "deleteSyncConfigByConfigId" => (del.id \in flowConfigs) = del.hadFlowConfigs
    /\ del.pc \in {"updateConfig", "updateConnections"} => FlowConfigsGone
    /\ del.pc \in {"deleteSyncsByProviderConfig", "deleteSyncFilesForConfig",
                   "deleteSyncConfigByConfigId", "updateConfig"} =>
          /\ ~ConfigDeleted(del.id)
          /\ connections = del.connections0
    /\ del.pc = "updateConnections" =>
          /\ ConfigDeleted(del.id)
          /\ connections = del.connections0

\* what holds once the call has returned
CascadeResult(filesGone) ==
    DelDone =>
        /\ del.ret = TRUE
        /\ SyncsGone
        /\ filesGone
        /\ FlowConfigsGone
        /\ ConfigDeleted(del.id)
        /\ ConnectionsDeleted

\* C4 as stated: on a non-deleted configuration the statements run in the
\* order syncs, sync files, flow configs, config row, connection rows, and
\* after the call no sync, schedule, sync file or flow-config row of the
\* configuration is left and the config row and its connections are deleted.
C4_CascadeAsStated ==
    del.wasLive => CascadeOrder(FilesGone) /\ CascadeResult(FilesGone)

\* C4 amended: the same, except that the sync files are deleted, and are
\* gone afterwards, only when isCloud is set.
C4_Cascade ==
    del.wasLive => CascadeOrder(isCloud => FilesGone) /\ CascadeResult(isCloud => FilesGone)

\* C4 witness: under isCloud a call on a live configuration that had a
\* connection with a scheduled sync, files and a flow-config row returned.
C4_Witness ==
    /\ DelDone
    /\ del.wasLive
    /\ isCloud
    /\ del.ret = TRUE
    /\ del.syncIds0 # {}
    /\ del.hadFiles
    /\ del.hadFlowConfigs
    /\ ConnectionsUnder(del.environmentId, del.providerConfigKey) # {}

ConfigRowsOf(environment_id, unique_key) ==
    {id \in RowIds(configs) :
        /\ configs[id].environment_id = environment_id
        /\ configs[id].unique_key = unique_key}

DeletedConnections == {c \in RowIds(connections) : connections[c].deleted = TRUE}

C10_UniqueKeyPerEnvironment == ~KeyClash(configs)

\* a non-deleted row with that provider exists in that environment
LiveRowOfProvider(provider, environment_id) ==
    \E id \in DOMAIN configs :
        /\ configs[id].provider = provider
        /\ configs[id].environment_id = environment_id
        /\ configs[id].deleted = FALSE

\* C11: createEmptyProviderConfig gives the new row the bare provider name
\* as unique_key exactly when no non-deleted row with that provider exists
\* in that environment at the call; otherwise the key is the provider name,
\* '-' and a disambiguator.  Deleted rows and rows of other environments
\* do not count.
C11_BareKeyIffNoLiveRow ==
    [][\A provider \in Providers, environment_id \in Environments, nanoid \in Nanoids :
          createEmptyProviderConfig(provider, environment_id, nanoid) =>
              LET row == configs'[Len(configs')]
              IN  /\ Len(configs') = Len(configs) + 1
                  /\ row.provider = provider
                  /\ row.environment_id = environment_id
                  /\ (row.unique_key = provider)
                         <=> ~LiveRowOfProvider(provider, environment_id)
                  /\ LiveRowOfProvider(provider, environment_id)
                         => row.unique_key = provider \o "-" \o nanoid]_vars

\* a second configuration of the provider got the suffixed key while the
\* first, with the bare key, was live
C11_Witness ==
    /\ Len(configs) = 2
    /\ configs[1].environment_id = configs[2].environment_id
    /\ configs[1].provider = configs[2].provider
    /\ configs[1].unique_key = configs[1].provider
    /\ configs[1].deleted = FALSE
    /\ configs[2].unique_key # configs[2].provider

(***************************************************************************)
(* Claims about deleteSync and deleteConfig, checked under SpecTeardown.   *)
(***************************************************************************)
\* C14: deleteSync removes the schedule before the sync row, and the row
\* only once the schedule is removed: in no state, an interruption or a
\* failure between the two included, is there a schedule whose sync row
\* is removed, and no step removes the row of a sync that has a schedule.
C14_NoScheduleWithoutSync ==
    /\ \A syncId \in schedules : SyncRows(syncId) # {}
    /\ tear.pc = "deleteSync" => tear.id \notin schedules

\* deleteSync is between its two statements: the schedule is removed and
\* the sync row is still there
C14_Witness ==
    /\ tear.pc = "deleteSync"
    /\ tear.id \notin schedules
    /\ SyncRows(tear.id) # {}

\* C15: deleteConfig removes the files before the flow-config row, and the
\* row only once the files are removed: an interruption or failure between
\* the two leaves the row without files, never files without their row.
C15_NoFilesWithoutConfig ==
    /\ files \subseteq flowConfigs
    /\ tear.pc = "deleteSyncConfig" => tear.id \notin files

\* a deleteConfig stopped between its two statements: a flow-config row is
\* left without files
C15_Witness ==
    /\ tear.pc = "idle"
    /\ \E syncConfigId \in flowConfigs : syncConfigId \notin files

(***************************************************************************)
(* Claims about the credentials, checked under SpecCreds.                  *)
(***************************************************************************)
\* C12: every row that carries a client secret stores it encrypted exactly
\* once, a row without a secret is stored without encryption, and getById,
\* getProviderConfig and listProviderConfigs return the secret as written.
C12_EncryptedExactlyOnce ==
    \A id \in DOMAIN configs :
        LET secret == configs[id].oauth_client_secret
            row == configs[id]
        IN  /\ secret.text # "" => Len(secret.sealed) = 1
            /\ secret.text = "" => secret.sealed = <<>>
            /\ getById(id).oauth_client_secret = Plaintext(secret.text)
            /\ getProviderConfigDecrypted(row.unique_key, row.environment_id)
                   .oauth_client_secret.sealed = <<>>
            /\ \A config \in listProviderConfigs(row.environment_id) :
                   config.oauth_client_secret.sealed = <<>>

\* C13: copyProviderConfigCreds inserts one row into the target environment
\* with the source's unique_key and the source row's stored payload, leaves
\* the source row as it was, and inserts nothing when there is no source.
C13_CopyKeepsStoredPayload ==
    [][\A fromEnvironmentId \in Environments, toEnvironmentId \in Environments,
          providerConfigKey \in UniqueKeys :
          copyProviderConfigCreds(fromEnvironmentId, toEnvironmentId, providerConfigKey) =>
              LET sources == {id \in DOMAIN configs :
                                 /\ configs[id].unique_key = providerConfigKey
                                 /\ configs[id].environment_id = fromEnvironmentId
                                 /\ configs[id].deleted = FALSE}
              IN  IF sources = {} THEN configs' = configs
                  ELSE /\ Len(configs') = Len(configs) + 1
                       /\ \A id \in DOMAIN configs : configs'[id] = configs[id]
                       /\ configs'[Len(configs')].environment_id = toEnvironmentId
                       /\ configs'[Len(configs')].unique_key = providerConfigKey
                       /\ \E id \in sources :
                              configs'[Len(configs')].oauth_client_secret
                                  = configs[id].oauth_client_secret]_vars

(***************************************************************************)
(* Claims about the flow catalog, checked under SpecCatalog.               *)
(***************************************************************************)
\* the catalog was resolved: the request was answered with the flows
Resolved == response.status = 200

\* the flows persisted for the integration, and the templates of its provider
InstalledFlows == IF allFlows = Null THEN <<>> ELSE allFlows.actions \o allFlows.syncs

ProviderTemplateFlows ==
    LET template == TemplateOf(CatalogRow(FALSE).provider)
    IN  IF template = Undefined THEN <<>> ELSE template.actions \o template.syncs

Occurrences(flows, flow) == Cardinality({i \in DOMAIN flows : flows[i] = flow})

\* the three criteria of equivalence between a template T and an installed I
SameTypeAndName(T, I) == T.type = I.type /\ T.name = I.name

BothSyncReturnsIntersect(T, I) ==
    /\ T.type = "sync"
    /\ I.type = "sync"
    /\ Range(T.returns) \cap Range(I.returns) # {}

SharesEndpoint(T, I) ==
    \E a \in DOMAIN T.endpoints, b \in DOMAIN I.endpoints : T.endpoints[a] = I.endpoints[b]

Equivalent(T, I) ==
    SameTypeAndName(T, I) \/ BothSyncReturnsIntersect(T, I) \/ SharesEndpoint(T, I)

\* C6: a template that shares a (method, path) endpoint with an installed
\* flow is absent from the resolved catalog, whatever their names, types
\* and return-type names.
C6_SuppressedBySharedEndpoint ==
    Resolved =>
        \A t \in DOMAIN ProviderTemplateFlows, i \in DOMAIN InstalledFlows :
            SharesEndpoint(ProviderTemplateFlows[t], InstalledFlows[i])
                => Occurrences(response.flows, ProviderTemplateFlows[t]) = 0

\* C7: a template with the type and name of an installed flow, or a sync
\* template whose return-type names intersect those of an installed sync,
\* is absent from the resolved catalog.
C7_SuppressedByNameOrReturns ==
    Resolved =>
        \A t \in DOMAIN ProviderTemplateFlows, i \in DOMAIN InstalledFlows :
            LET T == ProviderTemplateFlows[t]
                I == InstalledFlows[i]
            IN  (SameTypeAndName(T, I) \/ BothSyncReturnsIntersect(T, I))
                    => Occurrences(response.flows, T) = 0

\* a sync template is suppressed by the one installed flow, a sync of
\* another name and other endpoints that returns one of its models
C7_Witness ==
    /\ Resolved
    /\ Len(InstalledFlows) = 1
    /\ \E t \in DOMAIN ProviderTemplateFlows :
           LET T == ProviderTemplateFlows[t]
               I == InstalledFlows[1]
           IN  /\ BothSyncReturnsIntersect(T, I)
               /\ ~SameTypeAndName(T, I)
               /\ ~SharesEndpoint(T, I)
               /\ Occurrences(response.flows, T) = 0

\* C8: a template with no equivalent installed flow appears in the
\* resolved catalog exactly once; an action template is not made
\* equivalent to an installed sync by the models they both return.
C8_TemplateRetention ==
    Resolved =>
        \A t \in DOMAIN ProviderTemplateFlows :
            (\A i \in DOMAIN InstalledFlows :
                 ~Equivalent(ProviderTemplateFlows[t], InstalledFlows[i]))
                => Occurrences(response.flows, ProviderTemplateFlows[t]) = 1

\* C9: every installed flow appears in the resolved catalog exactly once,
\* whatever the templates and the other installed flows are.
C9_InstalledExactlyOnce ==
    Resolved =>
        \A i \in DOMAIN InstalledFlows :
            Occurrences(response.flows, InstalledFlows[i]) = 1

\* two installed flows of one type and name, equivalent to a template, are
\* both in the resolved catalog
C9_Witness ==
    /\ Resolved
    /\ Len(InstalledFlows) = 2
    /\ SameTypeAndName(InstalledFlows[1], InstalledFlows[2])
    /\ \E t \in DOMAIN ProviderTemplateFlows :
           SameTypeAndName(ProviderTemplateFlows[t], InstalledFlows[1])
    /\ \A i \in DOMAIN InstalledFlows : Occurrences(response.flows, InstalledFlows[i]) = 1

\* the request is answered
Answered == response # NoResponse

\* no row of the configurations that is not deleted has the key and the
\* environment the catalog is asked for
NoLiveConfig ==
    \A id \in DOMAIN configs :
        \/ configs[id].deleted
        \/ configs[id].unique_key # CatalogKey
        \/ configs[id].environment_id # 1

\* C19: a well-formed request for the catalog of a configuration that was
\* never created, or is soft-deleted, is answered 404 not_found with no
\* flows, whatever templates there are for its provider.
C19_NotFoundWithoutLiveConfig ==
    (Answered /\ request = "ok" /\ NoLiveConfig) =>
        /\ response.status = 404
        /\ response.code = "not_found"
        /\ response.flows = <<>>

\* the catalog was asked for a soft-deleted configuration whose provider
\* has templates
C19_Witness ==
    /\ Answered
    /\ request = "ok"
    /\ configs = <<CatalogRow(TRUE)>>
    /\ ProviderTemplateFlows # <<>>
    /\ response.status = 404

\* the file cannot be loaded: it is missing, unparseable or empty
Unloadable == providersYaml \in {Missing, Unparseable, EmptyDocument}

TemplateOps == {"getTemplate", "getTemplates", "checkProviderTemplateExists"}

ConfigurationErrors ==
    {"unknown_provider_template_in_config", "provider_template_loading_failed"}

\* C20: over a providers.yaml that is missing, unparseable or empty the
\* registry is constructed all the same, with no templates; every call of
\* getTemplate, getTemplates and checkProviderTemplateExists then throws a
\* configuration error, each time it is made; createEmptyProviderConfig
\* goes on inserting rows; and no step changes the templates.
C20_LoadFailureSurfacesAtUse ==
    /\ [](Unloadable =>
            /\ templates = Null
            /\ lastCall.op \in TemplateOps => lastCall.threw \in ConfigurationErrors
            /\ Len(configs) < MaxConfigs =>
                   ENABLED createEmptyProviderConfig("p", 1, "x7k2"))
    /\ [][templates' = templates]_vars

\* over a missing providers.yaml a row was inserted, and the second of two
\* calls for the templates threw as the first did
C20_Witness ==
    /\ providersYaml = Missing
    /\ lastCall.n = 2
    /\ lastCall.op = "getTemplates"
    /\ lastCall.threw = "provider_template_loading_failed"
    /\ Len(configs) = 1

\* C24: when deleteProviderConfig returns false, because no live row has
\* the id, the call has removed nothing: the syncs that were under the key
\* in the environment when it was called are all there, each with its
\* schedule if it had one, and the sync files and the flow-config rows of
\* the id are there if they were.
C24_FalseLeavesStateUnchanged ==
    (DelDone /\ del.ret = FALSE /\ del.updated = 0) =>
        /\ \A id \in del.syncIds0 : \E s \in syncs : s.id = id
        /\ del.hadFiles => del.id \in files
        /\ del.hadFlowConfigs => del.id \in flowConfigs
        /\ connections = del.connections0

(***************************************************************************)
(* Claim about two createEmptyProviderConfig at once, checked under        *)
(* SpecRace.                                                               *)
(***************************************************************************)
\* the row a caller's call inserted
InsertedBy(caller) == configs[race[caller].inserted]

\* C25: when two calls of createEmptyProviderConfig for one provider and
\* one environment have both inserted their row, whatever the order of
\* their steps, the two rows do not both have the bare provider name as
\* unique_key.
C25_NotBothBareKey ==
    \A a, b \in Callers :
        (/\ a # b
         /\ race[a].pc = "done"
         /\ race[b].pc = "done"
         /\ race[a].provider = race[b].provider
         /\ race[a].environment_id = race[b].environment_id) =>
            ~(/\ InsertedBy(a).unique_key = race[a].provider
              /\ InsertedBy(b).unique_key = race[b].provider)

(***************************************************************************)
(* Claims about the toggle of a flow, checked under SpecToggle.            *)
(***************************************************************************)
\* the requests of one kind the handler in progress, or the last one, sent
Sent(api) == Cardinality({i \in DOMAIN toggle.requests : toggle.requests[i].api = api})

\* the flow the handler was called for has a persisted identifier
Persisted == toggle.closure.id # 0

\* C21: onEnable for a flow without a persisted identifier sends one
\* first-deploy request and no enable request, and for a flow with one it
\* sends one enable request, for that identifier, and no deploy request;
\* onDisable sends its one request only for a flow with a persisted
\* identifier and otherwise does nothing; and a handler that has shown the
\* toast of a success and closed the dialog has fetched the catalog again
\* before.
C21_ToggleDispatch ==
    /\ toggle.handler = "onEnable" =>
          /\ Sent("apiFlowDisable") = 0
          /\ Persisted =>
                /\ Sent("apiFlowEnable") = 1
                /\ Sent("apiPreBuiltDeployFlow") = 0
                /\ toggle.requests[1].id = toggle.closure.id
          /\ ~Persisted =>
                /\ Sent("apiPreBuiltDeployFlow") = 1
                /\ Sent("apiFlowEnable") = 0
    /\ toggle.handler = "onDisable" =>
          /\ Sent("apiFlowEnable") = 0
          /\ Sent("apiPreBuiltDeployFlow") = 0
          /\ Persisted => Sent("apiFlowDisable") = 1
          /\ ~Persisted =>
                /\ toggle.requests = <<>>
                /\ toggle.pc = "idle"
                /\ toggle.toast = ""
                /\ toggle.refetched = 0
    /\ toggle.closed => toggle.refetched = 1
    /\ (toggle.handler # "" /\ toggle.pc = "idle"
            /\ toggle.toast \notin {"", "An unexpected error occurred"}) =>
          \/ toggle.refetched = 1 /\ toggle.closed
          \* the handler was left by the rejected fetch
          \/ toggle.refetched = 0 /\ ~toggle.closed

\* a second click, on a flow that the first click deployed: the enable
\* request for its identifier was answered, the catalog fetched again and
\* the dialog closed
C21_Witness ==
    /\ toggle.n = 2
    /\ toggle.handler = "onEnable"
    /\ toggle.pc = "idle"
    /\ Persisted
    /\ toggle.requests = <<[api |-> "apiFlowEnable", id |-> 1]>>
    /\ toggle.toast = "Enabled successfully"
    /\ toggle.refetched = 1
    /\ toggle.closed
    /\ ~toggle.open

====
